---- MODULE Spec2Model ----
(***************************************************************************)
(* Model of AnalysisService (server/services/analysisService.ts, strict    *)
(* revision): the orchestration of one analyze() / analyzeWithStreaming()  *)
(* call, the response normalizer and the synthesis of chunk results.       *)
(*                                                                         *)
(* Strings that the code only concatenates are modelled as sequences of    *)
(* tokens; a raw LLM response is modelled by what the normalizer can see   *)
(* in it: whether a JSON candidate is found and parses, and the fields and *)
(* question objects written in it.  Scores are integers.                   *)
(***************************************************************************)
EXTENDS Integers, Sequences, FiniteSets, TLC

\* Largest number of chunks in a request's chunk list.
MaxChunks == 3

----------------------------------------------------------------------------
\* Inputs

\* AnalysisMode: {cognitive, psychological, psychopathological} x {short, long}
Modes ==
  { [kind |-> k, length |-> l] :
      k \in {"cognitive", "psychological", "psychopathological"}, l \in {"short", "long"} }

Entries == {"analyze", "analyzeWithStreaming"}

\* A text is named by where it comes from: request.text (idx 0) or the text
\* of the chunk with id idx.
RequestText == [src |-> "request", idx |-> 0]
ChunkText(k) == [src |-> "chunk", idx |-> k]

\* request.chunks: absent/empty, or up to MaxChunks chunks, each selected or not.
ChunkLists ==
  UNION { { [k \in 1..n |-> [id |-> k, text |-> ChunkText(k), selected |-> sel[k]]] :
              sel \in [1..n -> BOOLEAN] } : n \in 0..MaxChunks }

Requests ==
  { [text |-> RequestText, mode |-> m, chunks |-> cs] : m \in Modes, cs \in ChunkLists }

QA(q, a, s) == [question |-> q, answer |-> a, score |-> s]

\* A raw LLM response.  json: a JSON candidate is found and JSON.parse accepts
\* it.  summary/category/finalAssessment: token sequences, << >> when the
\* field is not written (or written as the empty string).
\* hasOverall: an overallScore is written.  questions: the
\* {"question","answer","score"} objects written in the text, in text order.
Raw(j, s, c, f, h, o, qs) ==
  [json |-> j, summary |-> s, category |-> c, finalAssessment |-> f,
   hasOverall |-> h, overallScore |-> o, questions |-> qs]

RawResponses ==
  { Raw(TRUE, <<"S1">>, <<"C1">>, <<"F1">>, TRUE, 80, << QA("Q1", <<"a1">>, 80) >>),
    Raw(TRUE, <<"S2">>, <<"C2">>, <<"F2">>, TRUE, 90,
        << QA("Q1", <<"a2">>, 90), QA("Q2", <<"b2">>, 85) >>),
    Raw(TRUE, <<"S3">>, <<"C1">>, << >>, TRUE, 100,
        << QA("Q2", <<"b3">>, 100), QA("Q1", <<"a3">>, 95), QA("Q2", <<"b4">>, 75) >>),
    Raw(TRUE, <<"S4">>, << >>, <<"F4">>, TRUE, 150, << QA("Q1", <<"a4">>, 150) >>),
    Raw(TRUE, <<"S5">>, << >>, << >>, FALSE, 0,
        << QA("Q1", <<"a5">>, -5), QA("Q3", <<"c5">>, 0) >>),
    Raw(TRUE, << >>, <<"C1">>, <<"F6">>, TRUE, 70, << QA("Q1", <<"a6">>, 70) >>),
    Raw(FALSE, <<"S7">>, << >>, << >>, FALSE, 0,
        << QA("Q1", <<"a7", ".">>, 150), QA("Q2", <<"b7">>, -5) >>),
    Raw(FALSE, <<"S8">>, <<"C8">>, <<"F8">>, TRUE, 60, << >>) }

\* The response of phase k (1..3) of the comprehensive protocol: it is quoted
\* in later prompts and in rawResponse, and never parsed.
PhaseResponse(k) ==
  IF k = 1 THEN Raw(TRUE, <<"P1">>, <<"CP">>, <<"FP">>, TRUE, 40, << QA("Q9", <<"p1">>, 40) >>)
  ELSE IF k = 2 THEN Raw(FALSE, <<"P2">>, << >>, << >>, FALSE, 0, << QA("Q8", <<"p2">>, 30) >>)
  ELSE Raw(TRUE, <<"P3">>, << >>, << >>, TRUE, 20, << QA("Q7", <<"p3">>, 20) >>)

NoRaw == Raw(FALSE, << >>, << >>, << >>, FALSE, 0, << >>)

----------------------------------------------------------------------------
\* Arithmetic helpers

RECURSIVE SumSeq(_)
SumSeq(s) == IF s = <<>> THEN 0 ELSE Head(s) + SumSeq(Tail(s))

\* Variant: Math.floor in place of Math.round.
MathRound_floor(t, n) == t \div n

\* Math.round(t / n) for n > 0: nearest integer, ties towards +infinity.
MathRound(t, n) == (2 * t + n) \div (2 * n)

Min(a, b) == IF a < b THEN a ELSE b
Max(a, b) == IF a > b THEN a ELSE b

MapSeq(s, F(_)) == [k \in 1..Len(s) |-> F(s[k])]

RECURSIVE Flatten(_)
Flatten(ss) == IF ss = <<>> THEN <<>> ELSE Head(ss) \o Flatten(Tail(ss))

\* Array.prototype.join over token sequences.
RECURSIVE Join(_, _)
Join(ss, sep) ==
  IF ss = <<>> THEN <<>>
  ELSE IF Len(ss) = 1 THEN ss[1]
  ELSE ss[1] \o <<sep>> \o Join(Tail(ss), sep)

----------------------------------------------------------------------------
\* Response normalizer

Ok(v) == [ok |-> TRUE, value |-> v, error |-> ""]
Throw(msg) == [ok |-> FALSE, value |-> <<>>, error |-> msg]

getCategoryForMode(mode) ==
  IF mode.kind = "cognitive" THEN <<"Cognitive Function">>
  ELSE IF mode.kind = "psychological" THEN <<"Psychological Characteristics">>
  ELSE IF mode.kind = "psychopathological" THEN <<"Psychopathological Assessment">>
  ELSE <<"General Analysis">>

\* answer.replace(/\s*[:.]\s*$/, '')
StripTrailingPunct(a) ==
  IF a # <<>> /\ a[Len(a)] \in {".", ":"} THEN SubSeq(a, 1, Len(a) - 1) ELSE a

\* The question regex needs "score": followed by digits: a negative score,
\* an empty question or an empty answer does not match.
MatchesQuestionPattern(q) == q.question # "" /\ q.answer # <<>> /\ q.score >= 0

createStructuredResponse(response, mode) ==
  LET matched == SelectSeq(response.questions, MatchesQuestionPattern)
      clampItem(q) == QA(q.question, StripTrailingPunct(q.answer),
                         Min(100, Max(0, q.score)))
      questionObjects == MapSeq(matched, clampItem)
      validScores == SelectSeq(questionObjects, LAMBDA it : it.score > 0)
      overall == IF Len(validScores) > 0
                 THEN MathRound(SumSeq(MapSeq(validScores, LAMBDA it : it.score)),
                                Len(validScores))
                 ELSE 75
  IN  IF Len(questionObjects) = 0
      THEN Throw("Failed to extract any question responses from LLM output")
      ELSE IF response.summary = << >>
      THEN Throw("Failed to extract summary from LLM output")
      ELSE Ok([summary |-> response.summary,
               category |-> IF response.category # << >> THEN response.category
                            ELSE getCategoryForMode(mode),
               questions |-> questionObjects,
               overallScore |-> overall,
               finalAssessment |-> IF response.finalAssessment # << >>
                                   THEN response.finalAssessment
                                   ELSE response.summary])

validateAndFixResponse(parsed, mode) ==
  IF parsed.summary = << >>
  THEN Throw("LLM failed to provide summary - invalid response structure")
  ELSE IF Len(parsed.questions) = 0
  THEN Throw("LLM failed to provide question responses - invalid response structure")
  ELSE
    LET scores == MapSeq(parsed.questions,
                         LAMBDA q : IF q.score = 0 THEN 50 ELSE q.score)
    IN  Ok([summary |-> parsed.summary,
            category |-> IF parsed.category = << >> THEN getCategoryForMode(mode)
                         ELSE parsed.category,
            questions |-> parsed.questions,
            overallScore |-> IF ~parsed.hasOverall \/ parsed.overallScore = 0
                             THEN MathRound(SumSeq(scores), Len(scores))
                             ELSE parsed.overallScore,
            finalAssessment |-> IF parsed.finalAssessment = << >> THEN parsed.summary
                                ELSE parsed.finalAssessment])

parseAnalysisResponse(response, mode) ==
  IF ~response.json
  THEN createStructuredResponse(response, mode)
  ELSE LET validated == validateAndFixResponse(response, mode)
       IN  IF validated.ok THEN validated
           ELSE createStructuredResponse(response, mode)

----------------------------------------------------------------------------
\* Results

\* rawResponse is a sequence of labelled parts (label, number, quoted response).
Part(label, n, body) == [label |-> label, n |-> n, body |-> body]

StandardRawResponse(rawResponse) == << Part("", 0, rawResponse) >>

ComprehensiveRawResponse(p1, p2, p3, final) ==
  << Part("PHASE 1:", 0, p1), Part("PHASE 2 (PUSHBACK):", 0, p2),
     Part("PHASE 3 (VALIDATION):", 0, p3), Part("FINAL SYNTHESIS:", 0, final) >>

\* Variant: finalAssessment is filled from the summary.
AnalysisResult_summaryAsAssessment(id, mode, parsedResult, rawResponse) ==
  [id |-> id, mode |-> mode,
   overallScore |-> parsedResult.overallScore,
   summary |-> parsedResult.summary,
   category |-> parsedResult.category,
   questions |-> parsedResult.questions,
   finalAssessment |-> parsedResult.summary,
   rawResponse |-> rawResponse]

AnalysisResult(id, mode, parsedResult, rawResponse) ==
  [id |-> id, mode |-> mode,
   overallScore |-> parsedResult.overallScore,
   summary |-> parsedResult.summary,
   category |-> parsedResult.category,
   questions |-> parsedResult.questions,
   finalAssessment |-> parsedResult.finalAssessment,
   rawResponse |-> rawResponse]

\* combinedResults.push({chunkId, chunkTitle, ...chunkResult})
ChunkOk(chunk, idx, r) ==
  [chunkId |-> chunk.id, chunkTitle |-> idx, error |-> "",
   id |-> r.id, mode |-> r.mode, overallScore |-> r.overallScore,
   summary |-> r.summary, category |-> r.category, questions |-> r.questions,
   finalAssessment |-> r.finalAssessment, rawResponse |-> r.rawResponse]

\* Variant: the caught error's message is lost.
ChunkErr_noMessage(chunk, idx, msg) == [chunkId |-> chunk.id, chunkTitle |-> idx, error |-> ""]

\* combinedResults.push({chunkId, chunkTitle, error})
ChunkErr(chunk, idx, msg) == [chunkId |-> chunk.id, chunkTitle |-> idx, error |-> msg]

\* `CHUNK ${i + 1}:\n${chunkResult.rawResponse}`
ChunkResponse(idx, rawResponse) == << Part("CHUNK", idx, NoRaw) >> \o rawResponse

ChunkSeparator == Part("---", 0, NoRaw)

\* Variant: every result is stored under one shared key.
MapSet_sharedKey(store, id, v) == (0 :> v) @@ store

\* this.results.set(id, v): the entry of id is added or replaced.
MapSet(store, id, v) == (id :> v) @@ store

\* Keys of a Map in insertion order: first occurrences.
RECURSIVE FirstOccurrences(_)
FirstOccurrences(s) ==
  IF s = <<>> THEN <<>>
  ELSE LET init == FirstOccurrences(SubSeq(s, 1, Len(s) - 1))
           last == s[Len(s)]
       IN  IF \E k \in 1..Len(init) : init[k] = last THEN init ELSE Append(init, last)

\* Variant: the error filter is missing.
validResultsOf_unfiltered(chunkResults) == chunkResults

\* chunkResults.filter(result => !result.error)
validResultsOf(chunkResults) == SelectSeq(chunkResults, LAMBDA r : r.error = "")

\* Variant: a later chunk's answer and score replace the earlier ones.
synthesizeQuestion_lastWins(question, items) ==
  QA(question, items[Len(items)].answer, items[Len(items)].score)

\* One entry of questionMap turned into a synthesized question; items are the
\* questions of all valid chunks that carry this question text, in chunk order.
synthesizeQuestion(question, items) ==
  QA(question,
     Join(MapSeq(items, LAMBDA q : q.answer), " // "),
     MathRound(SumSeq(MapSeq(items, LAMBDA q : q.score)), Len(items)))

\* A field that a chunk record may lack reads as undefined: `|| 0`, `|| []`,
\* and the empty string inside join().
FieldOr(r, f, default) == IF f \in DOMAIN r THEN r[f] ELSE default

synthesizeChunkResults(chunkResults, req, id) ==
  LET validResults == validResultsOf(chunkResults)
      n == Len(validResults)
      totalScore == SumSeq(MapSeq(validResults, LAMBDA r : FieldOr(r, "overallScore", 0)))
      averageScore == MathRound(totalScore, n)
      allQuestions == Flatten(MapSeq(validResults, LAMBDA r : FieldOr(r, "questions", << >>)))
      keys == FirstOccurrences(MapSeq(allQuestions, LAMBDA q : q.question))
      group(key) == SelectSeq(allQuestions, LAMBDA q : q.question = key)
      summaries == Join(MapSeq(validResults, LAMBDA r : FieldOr(r, "summary", << >>)), " ")
      categories ==
        Join(FirstOccurrences(MapSeq(validResults, LAMBDA r : FieldOr(r, "category", << >>))),
             ", ")
      finalAssessments ==
        Join(MapSeq(validResults, LAMBDA r : FieldOr(r, "finalAssessment", << >>)), " ")
  IN  IF n = 0 THEN Throw("All chunks failed to process")
      ELSE Ok([id |-> id, mode |-> req.mode,
               overallScore |-> averageScore,
               summary |-> <<"Multi-chunk analysis (", ToString(n), " chunks): ">> \o summaries,
               category |-> categories,
               questions |-> MapSeq(keys, LAMBDA key : synthesizeQuestion(key, group(key))),
               finalAssessment |->
                 <<"Combined assessment from ", ToString(n), " chunks: ">> \o finalAssessments,
               rawResponse |-> << >>])

----------------------------------------------------------------------------
\* State of one AnalysisService and of the analyze() call running on it

VARIABLES
  pc,                \* "idle", "llm" (awaiting an LLM call), "delay" (awaiting
                     \* this.delay), "returned", "raised"
  request,           \* the AnalysisRequest of the call
  entry,             \* "analyze" or "analyzeWithStreaming"
  i,                 \* 1-based index into selectedChunks; 0 on the single path
  phase,             \* phase of the awaited LLM call: 1..4, or 0 (standard)
  phaseResponses,    \* phase1Response, phase2Response, phase3Response so far
  combinedResults,   \* performChunkedAnalysis: combinedResults
  combinedResponses, \* performChunkedAnalysis: combinedResponses
  results,           \* the Result Store: this.results, id -> AnalysisResult
  nextId,            \* randomUUID(): the next fresh id
  returned,          \* << result >> once the call has returned
  error,             \* message of the error the call raised
  events,            \* phases of the status/progress events given to onUpdate
  llmTrace,          \* history: LLM calls issued/returned/failed, delays
  unitLog            \* history: outcome of each finished unit of work

vars == << pc, request, entry, i, phase, phaseResponses, combinedResults,
           combinedResponses, results, nextId, returned, error, events,
           llmTrace, unitLog >>

\* State around the call: the HTTP routes of the server process, and the
\* inputs and outputs of the functions that are checked on their own.
VARIABLES
  sse,               \* route /api/analyze: the terminal events written to res
  resEnded,          \* route /api/analyze: res.end() was called
  cancel,            \* history: what the call had done when the client aborted
  others,            \* the other requests being served: their call's variables
  download,          \* route /api/download/:resultId: the last response
  ckPc, ckText, ckSize, ckChunks,              \* chunkText: text, chunkSize, result
  nzPc, nzResponse, nzMode, nzStrict, nzLenient, \* parseAnalysisResponse, both revisions
  inputText,         \* client: the text of the input box, by its number of words
  clientChunks,      \* client: the chunks state
  chunkPending,      \* client: the texts of the /api/chunk mutations in flight
  currentResult,     \* client: a result (partial or final) is displayed
  isAnalyzing,       \* client: a streaming analysis is running
  runs,              \* client: the performStreamingAnalysis calls in progress
  abortController,   \* client: the abortController state is not null
  toast,             \* client: the last toast of performStreamingAnalysis
  scPc, scText, scOut,  \* the JSON candidate search: response text, result
  sent               \* client: the body of the last request sent to /api/analyze

routeVars == << sse, resEnded >>
serverVars == << cancel, others, download >>
chunkerVars == << ckPc, ckText, ckSize, ckChunks >>
normalizerVars == << nzPc, nzResponse, nzMode, nzStrict, nzLenient >>
clientVars == << inputText, clientChunks, chunkPending, currentResult, isAnalyzing,
                runs, abortController, toast, sent >>
scanVars == << scPc, scText, scOut >>
auxVars == << routeVars, serverVars, chunkerVars, normalizerVars, clientVars, scanVars >>
allVars == << vars, auxVars >>

RouteIdle == sse = << >> /\ resEnded = FALSE
ServerIdle == cancel = << >> /\ others = << >> /\ download = << >>
ChunkerIdle == ckPc = "idle" /\ ckText = << >> /\ ckSize = 0 /\ ckChunks = << >>
NormalizerIdle ==
  /\ nzPc = "idle" /\ nzResponse = NoRaw /\ nzMode = [kind |-> "cognitive", length |-> "short"]
  /\ nzStrict = << >> /\ nzLenient = << >>
ScanIdle == scPc = "idle" /\ scText = << >> /\ scOut = << >>
ClientIdle ==
  /\ inputText = 0 /\ clientChunks = << >> /\ chunkPending = {}
  /\ currentResult = FALSE /\ isAnalyzing = FALSE /\ sent = << >>
  /\ runs = << >> /\ abortController = FALSE /\ toast = << >>

\* Variant: the selection filter is missing.
selectedChunks_all(req) == req.chunks

selectedChunks(req) == SelectSeq(req.chunks, LAMBDA c : c.selected)

\* request.mode.includes('long')
isComprehensive(req) == req.mode.length = "long"

\* Variant: tests for the presence of chunks instead of a selected chunk.
someSelected_anyChunk(req) == Len(req.chunks) > 0

\* request.chunks?.some(chunk => chunk.selected)
someSelected(req) == \E k \in 1..Len(req.chunks) : req.chunks[k].selected

UnitText(req, idx) == IF idx = 0 THEN req.text ELSE selectedChunks(req)[idx].text

FirstPhase(req) == IF isComprehensive(req) THEN 1 ELSE 0

\* A prompt is a sequence of sections: a fixed label, and the text or the
\* earlier response interpolated under it.
NoText == [src |-> "none", idx |-> 0]
Section(label, text, response) == [label |-> label, text |-> text, response |-> response]
Fixed(label) == Section(label, NoText, NoRaw)

getUserExactInstructions == << Fixed("USER INSTRUCTIONS") >>

\* String.prototype.trim over a sequence of tokens, " " being whitespace.
RECURSIVE TrimStart(_)
TrimStart(str) ==
  IF str # << >> /\ Head(str) = " " THEN TrimStart(Tail(str)) ELSE str

RECURSIVE TrimEnd(_)
TrimEnd(str) ==
  IF str # << >> /\ str[Len(str)] = " " THEN TrimEnd(SubSeq(str, 1, Len(str) - 1)) ELSE str

Trim(str) == TrimEnd(TrimStart(str))

\* request.critique: a missing field (undefined) is falsy as "" is.
CritiqueOf(req) == IF "critique" \in DOMAIN req THEN req.critique ELSE << >>

\* Variant: the critique is tested and quoted untrimmed.
buildAnalysisPrompt_untrimmed(text, req) ==
  << Section("TEXT TO ANALYZE:", text, NoRaw) >>
    \o (IF CritiqueOf(req) # << >>
        THEN << Section("CRITIQUE OF PREVIOUS ANALYSIS:",
                        [src |-> "critique", idx |-> 0, quote |-> CritiqueOf(req)], NoRaw) >>
        ELSE << >>)
    \o getUserExactInstructions

\* backgroundInfo is absent from the requests modelled here.
buildAnalysisPrompt(text, req) ==
  << Section("TEXT TO ANALYZE:", text, NoRaw) >>
    \o (IF CritiqueOf(req) # << >> /\ Trim(CritiqueOf(req)) # << >>
        THEN << Section("CRITIQUE OF PREVIOUS ANALYSIS:",
                        [src |-> "critique", idx |-> 0, quote |-> Trim(CritiqueOf(req))], NoRaw) >>
        ELSE << >>)
    \o getUserExactInstructions

buildComprehensivePrompt(text, req, ph) ==
  buildAnalysisPrompt(text, req)
    \o (IF ph = 1 THEN << Fixed("This is Phase 1 of comprehensive analysis.") >> ELSE << >>)

buildPushbackPrompt(text, previousResponse) ==
  << Fixed("PHASE 2: PUSHBACK PROTOCOL"),
     Section("Original text:", text, NoRaw),
     Section("Your previous analysis:", NoText, previousResponse),
     Fixed("PUSHBACK PROTOCOL: IF THE SCORES ARE LESS THAN 95/100, YOU PUSH BACK."),
     Fixed("Respond in the same JSON format as before.") >>

buildWalmartMetricPrompt(text, pushbackResponse) ==
  << Fixed("PHASE 3: SCORE CONSISTENCY VALIDATION"),
     Section("Original text:", text, NoRaw),
     Section("Post-pushback analysis:", NoText, pushbackResponse),
     Fixed("Provide final validated scores and analysis."),
     Fixed("Respond in the same JSON format as before.") >>

buildFinalSynthesisPrompt(text, phase1, phase2, phase3) ==
  << Fixed("FINAL SYNTHESIS - Phase 4"),
     Section("Original text:", text, NoRaw),
     Section("Phase 1 (Initial):", NoText, phase1),
     Section("Phase 2 (Pushback):", NoText, phase2),
     Section("Phase 3 (Validation):", NoText, phase3),
     Fixed("Now synthesize all phases into your final assessment:"),
     Fixed("Respond in the same JSON format as before.") >>

\* Variant: the validation prompt quotes the initial analysis instead of the
\* post-pushback analysis.
PromptOf_stalePhase1(req, idx, ph, responses) ==
  IF ph = 0 THEN buildAnalysisPrompt(UnitText(req, idx), req)
  ELSE IF ph = 1 THEN buildComprehensivePrompt(UnitText(req, idx), req, 1)
  ELSE IF ph = 2 THEN buildPushbackPrompt(UnitText(req, idx), responses[1])
  ELSE IF ph = 3 THEN buildWalmartMetricPrompt(UnitText(req, idx), responses[1])
  ELSE buildFinalSynthesisPrompt(UnitText(req, idx), responses[1], responses[2], responses[3])

\* The prompt of the LLM call of phase ph of unit idx; responses are the
\* responses of the unit's earlier phases.
PromptOf(req, idx, ph, responses) ==
  IF ph = 0 THEN buildAnalysisPrompt(UnitText(req, idx), req)
  ELSE IF ph = 1 THEN buildComprehensivePrompt(UnitText(req, idx), req, 1)
  ELSE IF ph = 2 THEN buildPushbackPrompt(UnitText(req, idx), responses[1])
  ELSE IF ph = 3 THEN buildWalmartMetricPrompt(UnitText(req, idx), responses[2])
  ELSE buildFinalSynthesisPrompt(UnitText(req, idx), responses[1], responses[2], responses[3])

NoPrompt == << >>

Trace(op, idx, ph, text, resp, prompt) ==
  [op |-> op, unit |-> idx, phase |-> ph, text |-> text, response |-> resp,
   prompt |-> prompt]

\* onUpdate exists only in analyzeWithStreaming.
Ev(ent, ph) == IF ent = "analyzeWithStreaming" THEN << ph >> ELSE << >>

\* Variant: the statuses of phases 2 and 3 are exchanged.
PhaseName_phase3First(ph) ==
  IF ph = 0 THEN "llm-call" ELSE IF ph = 1 THEN "phase1" ELSE IF ph = 2 THEN "phase3"
  ELSE IF ph = 3 THEN "phase2" ELSE "phase4"

PhaseName(ph) ==
  IF ph = 0 THEN "llm-call" ELSE IF ph = 1 THEN "phase1" ELSE IF ph = 2 THEN "phase2"
  ELSE IF ph = 3 THEN "phase3" ELSE "phase4"

\* A freshly constructed AnalysisService with no call running.
ServiceInit ==
  /\ pc = "idle"
  /\ request = [text |-> RequestText, mode |-> [kind |-> "cognitive", length |-> "short"],
                chunks |-> << >>]
  /\ entry = "analyze"
  /\ i = 0
  /\ phase = 0
  /\ phaseResponses = << >>
  /\ combinedResults = << >>
  /\ combinedResponses = << >>
  /\ results = << >>
  /\ nextId = 1
  /\ returned = << >>
  /\ error = ""
  /\ events = << >>
  /\ llmTrace = << >>
  /\ unitLog = << >>

Init == ServiceInit /\ RouteIdle /\ ServerIdle /\ ChunkerIdle /\ NormalizerIdle /\ ClientIdle /\ ScanIdle

\* Enter performStandardAnalysis / performComprehensiveAnalysis for unit idx and
\* run it up to its first await: the first LLM call is issued.
StartUnit(req, ent, idx, trace, evs) ==
  /\ pc' = "llm"
  /\ i' = idx
  /\ phase' = FirstPhase(req)
  /\ phaseResponses' = << >>
  /\ llmTrace' = Append(trace, Trace("call", idx, FirstPhase(req), UnitText(req, idx), NoRaw,
                                      PromptOf(req, idx, FirstPhase(req), << >>)))
  /\ events' = evs \o Ev(ent, PhaseName(FirstPhase(req)))

\* analyze(request) / analyzeWithStreaming(request, onUpdate), up to the first await.
Analyze(req, ent) ==
  /\ pc = "idle"
  /\ request' = req
  /\ entry' = ent
  /\ IF someSelected(req)
     THEN IF Len(selectedChunks(req)) = 0
          THEN /\ pc' = "raised"
               /\ error' = "No chunks selected for analysis"
               /\ events' = events \o Ev(ent, "initialization")
               /\ UNCHANGED << i, phase, phaseResponses, llmTrace >>
          ELSE /\ StartUnit(req, ent, 1, llmTrace,
                            events \o Ev(ent, "initialization") \o Ev(ent, "chunking")
                                   \o Ev(ent, "chunk-processing"))
               /\ UNCHANGED error
     ELSE /\ StartUnit(req, ent, 0, llmTrace, events \o Ev(ent, "initialization"))
          /\ UNCHANGED error
  /\ UNCHANGED << combinedResults, combinedResponses, results, nextId, returned, unitLog >>
  /\ UNCHANGED auxVars

\* The rest of the call once the pipeline of the current unit has returned r
\* (unitOk) or raised msg: return or raise on the single path; in the chunk
\* loop, record the chunk, then delay, start the next chunk, or synthesize.
UnitFinished(unitOk, r, msg, trace, evs, store, nid) ==
  LET sel == selectedChunks(request)
      cr == Append(combinedResults,
                   IF unitOk THEN ChunkOk(sel[i], i, r) ELSE ChunkErr(sel[i], i, msg))
      cresp == IF unitOk THEN Append(combinedResponses, ChunkResponse(i, r.rawResponse))
               ELSE combinedResponses
      synth == synthesizeChunkResults(cr, request, nid)
      synthesizedResult == [synth.value EXCEPT !.rawResponse = Join(cresp, ChunkSeparator)]
  IN  /\ unitLog' = Append(unitLog, [unit |-> i, ok |-> unitOk,
                                     result |-> IF unitOk THEN << r >> ELSE << >>])
      /\ IF i = 0
         THEN /\ pc' = IF unitOk THEN "returned" ELSE "raised"
              /\ returned' = IF unitOk THEN << r >> ELSE << >>
              /\ error' = IF unitOk THEN "" ELSE msg
              /\ results' = store
              /\ nextId' = nid
              /\ events' = evs
              /\ llmTrace' = trace
              /\ UNCHANGED << i, phase, phaseResponses, combinedResults, combinedResponses >>
         ELSE IF i < Len(sel)
         THEN /\ combinedResults' = cr
              /\ combinedResponses' = cresp
              /\ results' = store
              /\ nextId' = nid
              /\ UNCHANGED << returned, error >>
              /\ IF unitOk
                 THEN /\ pc' = "delay"
                      /\ events' = evs \o Ev(entry, "delay")
                      /\ llmTrace' = Append(trace, Trace("delay", i, 0, UnitText(request, i), NoRaw, NoPrompt))
                      /\ UNCHANGED << i, phase, phaseResponses >>
                 ELSE StartUnit(request, entry, i + 1, trace,
                                evs \o Ev(entry, "chunk-processing"))
         ELSE /\ combinedResults' = cr
              /\ combinedResponses' = cresp
              /\ events' = evs \o Ev(entry, "synthesis")
              /\ llmTrace' = trace
              /\ UNCHANGED << i, phase, phaseResponses >>
              /\ IF synth.ok
                 THEN /\ pc' = "returned"
                      /\ returned' = << synthesizedResult >>
                      /\ results' = MapSet(store, synthesizedResult.id, synthesizedResult)
                      /\ nextId' = nid + 1
                      /\ UNCHANGED error
                 ELSE /\ pc' = "raised"
                      /\ error' = synth.error
                      /\ results' = store
                      /\ nextId' = nid
                      /\ UNCHANGED returned

\* The awaited LLM call returns rawResponse; the call runs on to its next await
\* or to its end.
LLMReturn(rawResponse) ==
  /\ pc = "llm"
  /\ IF phase \in 1..3
     THEN /\ rawResponse = PhaseResponse(phase)
          /\ pc' = "llm"
          /\ phase' = phase + 1
          /\ phaseResponses' = Append(phaseResponses, rawResponse)
          /\ llmTrace' = llmTrace
                \o << Trace("return", i, phase, UnitText(request, i), rawResponse, NoPrompt),
                      Trace("call", i, phase + 1, UnitText(request, i), NoRaw,
                            PromptOf(request, i, phase + 1,
                                     Append(phaseResponses, rawResponse))) >>
          /\ events' = events \o Ev(entry, PhaseName(phase + 1))
          /\ UNCHANGED << i, combinedResults, combinedResponses, results, nextId,
                          returned, error, unitLog >>
     ELSE /\ rawResponse \in RawResponses
          /\ LET parsedResult == parseAnalysisResponse(rawResponse, request.mode)
                 result == AnalysisResult(nextId, request.mode, parsedResult.value,
                             IF phase = 0 THEN StandardRawResponse(rawResponse)
                             ELSE ComprehensiveRawResponse(phaseResponses[1], phaseResponses[2],
                                                           phaseResponses[3], rawResponse))
                 trace == Append(llmTrace,
                                 Trace("return", i, phase, UnitText(request, i), rawResponse,
                                       NoPrompt))
                 evs == events \o Ev(entry, "parsing")
             IN  IF parsedResult.ok
                 THEN UnitFinished(TRUE, result, "", trace, evs \o Ev(entry, "progress"),
                                   MapSet(results, result.id, result), nextId + 1)
                 ELSE UnitFinished(FALSE, << >>, parsedResult.error, trace, evs,
                                   results, nextId)
  /\ UNCHANGED << request, entry >>
  /\ UNCHANGED auxVars

\* Variant: a failed call of phases 1..3 is taken as an empty response.
LLMFail_emptyResponse ==
  /\ pc = "llm"
  /\ IF phase \in 1..3
     THEN /\ pc' = "llm"
          /\ phase' = phase + 1
          /\ phaseResponses' = Append(phaseResponses, NoRaw)
          /\ llmTrace' = llmTrace
                \o << Trace("fail", i, phase, UnitText(request, i), NoRaw, NoPrompt),
                      Trace("call", i, phase + 1, UnitText(request, i), NoRaw,
                            PromptOf(request, i, phase + 1, Append(phaseResponses, NoRaw))) >>
          /\ events' = events \o Ev(entry, PhaseName(phase + 1))
          /\ UNCHANGED << i, combinedResults, combinedResponses, results, nextId,
                          returned, error, unitLog >>
     ELSE UnitFinished(FALSE, << >>, "LLM call failed: provider error",
                       Append(llmTrace, Trace("fail", i, phase, UnitText(request, i), NoRaw, NoPrompt)),
                       events, results, nextId)
  /\ UNCHANGED << request, entry >>
  /\ UNCHANGED auxVars

\* The awaited LLM call fails: callLLM rethrows as "LLM call failed: ...".
LLMFail ==
  /\ pc = "llm"
  /\ UnitFinished(FALSE, << >>, "LLM call failed: provider error",
                  Append(llmTrace, Trace("fail", i, phase, UnitText(request, i), NoRaw, NoPrompt)),
                  events, results, nextId)
  /\ UNCHANGED << request, entry >>
  /\ UNCHANGED auxVars

\* Variant: the delay before the last chunk never elapses.
DelayElapsed_beforeLastPending ==
  /\ pc = "delay"
  /\ i + 1 < Len(selectedChunks(request))
  /\ StartUnit(request, entry, i + 1,
               Append(llmTrace, Trace("wake", i, 0, UnitText(request, i), NoRaw, NoPrompt)),
               events \o Ev(entry, "chunk-processing"))
  /\ UNCHANGED << request, entry, combinedResults, combinedResponses, results, nextId,
                  returned, error, unitLog >>
  /\ UNCHANGED auxVars

\* The 10-second delay elapses: the loop goes on with the next chunk.
DelayElapsed ==
  /\ pc = "delay"
  /\ StartUnit(request, entry, i + 1,
               Append(llmTrace, Trace("wake", i, 0, UnitText(request, i), NoRaw, NoPrompt)),
               events \o Ev(entry, "chunk-processing"))
  /\ UNCHANGED << request, entry, combinedResults, combinedResponses, results, nextId,
                  returned, error, unitLog >>
  /\ UNCHANGED auxVars

Next ==
  \/ \E req \in Requests, ent \in Entries : Analyze(req, ent)
  \/ \E rawResponse \in RawResponses \cup { PhaseResponse(k) : k \in 1..3 } :
        LLMReturn(rawResponse)
  \/ LLMFail
  \/ DelayElapsed

Spec == Init /\ [][Next]_allVars

----------------------------------------------------------------------------
\* Vocabulary of the properties

Started == pc # "idle"
Done == pc \in {"returned", "raised"}

HasSelected == \E k \in 1..Len(request.chunks) : request.chunks[k].selected
SelectedIds == { k \in 1..Len(request.chunks) : request.chunks[k].selected }
NSelected == Cardinality(SelectedIds)

\* The id of the u-th selected chunk, in the order of the request's chunk list.
SelectedId(u) ==
  CHOOSE id \in SelectedIds : Cardinality({ j \in SelectedIds : j <= id }) = u

TraceIdx(op) == { k \in DOMAIN llmTrace : llmTrace[k].op = op }
OpCount(op) == Cardinality(TraceIdx(op))
CallsOfUnit(u) == { k \in TraceIdx("call") : llmTrace[k].unit = u }
UnitFailedCall(u) == \E k \in TraceIdx("fail") : llmTrace[k].unit = u

OkUnits == SelectSeq(unitLog, LAMBDA e : e.ok)
AllUnitsOk == \A k \in DOMAIN unitLog : unitLog[k].ok
NoUnitOk == \A k \in DOMAIN unitLog : ~unitLog[k].ok

\* What synthesis yields from the successful chunks alone.
SynthesisOfSuccessful ==
  LET okChunks == MapSeq(OkUnits, LAMBDA e :
                    ChunkOk(request.chunks[SelectedId(e.unit)], e.unit, e.result[1]))
      okResponses == MapSeq(OkUnits, LAMBDA e : ChunkResponse(e.unit, e.result[1].rawResponse))
      synth == synthesizeChunkResults(okChunks, request, returned[1].id)
  IN  [synth.value EXCEPT !.rawResponse = Join(okResponses, ChunkSeparator)]

----------------------------------------------------------------------------
\* C1: in a chunked call a chunk whose pipeline raises (LLM failure or parse
\* error) does not stop the loop: every selected chunk is processed, and as
\* long as one chunk succeeded the call returns the result that synthesis
\* gives from the successful chunks alone.
C1_ChunkFailureIsolated ==
  (Done /\ HasSelected) =>
    /\ Len(unitLog) = NSelected
    /\ \A u \in 1..NSelected : unitLog[u].unit = u /\ CallsOfUnit(u) # {}
    /\ (\E u \in DOMAIN unitLog : unitLog[u].ok) =>
         /\ pc = "returned"
         /\ returned = << SynthesisOfSuccessful >>

C1_Witness ==
  /\ pc = "returned"
  /\ NSelected = 3
  /\ ~unitLog[1].ok /\ UnitFailedCall(1)
  /\ unitLog[2].ok
  /\ ~unitLog[3].ok /\ ~UnitFailedCall(3)

\* C2: when the pipeline of every selected chunk raises, the call raises
\* "All chunks failed to process", returns nothing and the Result Store
\* receives no entry.
C2_AllChunksFailedRaises ==
  (Done /\ HasSelected /\ Len(unitLog) = NSelected /\ NoUnitOk) =>
    /\ pc = "raised"
    /\ error = "All chunks failed to process"
    /\ returned = << >>
    /\ DOMAIN results = {}

C2_Witness ==
  /\ pc = "raised"
  /\ NSelected = 2
  /\ Len(unitLog) = 2
  /\ UnitFailedCall(1)
  /\ ~UnitFailedCall(2)
  /\ error = "All chunks failed to process"

\* C3 (as claimed): a chunked call with N selected chunks makes exactly N-1
\* inter-chunk delays, one after each selected chunk but the last, whichever
\* chunks succeed or raise.
C3_DelayAfterEachChunkButLast ==
  (Done /\ HasSelected) =>
    /\ OpCount("delay") = NSelected - 1
    /\ \A u \in 1..(NSelected - 1) : \E k \in TraceIdx("delay") : llmTrace[k].unit = u
    /\ \A k \in TraceIdx("delay") : llmTrace[k].unit # NSelected

SingleComprehensive == Started /\ ~HasSelected /\ request.mode.length = "long"

\* r is t / n rounded to a nearest integer.
IsRoundedMean(r, t, n) == n >= 1 /\ 2 * n * r - n <= 2 * t /\ 2 * t <= 2 * n * r + n

\* C5: a single-text comprehensive call issues its LLM calls in the order
\* phase 1, 2, 3, 4, each only after the previous one has returned, and the
\* returned overallScore, summary, category, questions and finalAssessment
\* are the normalization of the phase-4 response.
C5_PhasesInOrderResultFromPhase4 ==
  SingleComprehensive =>
    /\ \A k \in TraceIdx("call") :
         /\ llmTrace[k].phase = Cardinality({ j \in TraceIdx("call") : j <= k })
         /\ k > 1 => /\ llmTrace[k - 1].op = "return"
                     /\ llmTrace[k - 1].phase = llmTrace[k].phase - 1
    /\ pc = "returned" =>
         /\ OpCount("call") = 4
         /\ \E k \in TraceIdx("return") :
              /\ llmTrace[k].phase = 4
              /\ LET norm == parseAnalysisResponse(llmTrace[k].response, request.mode)
                     r == returned[1]
                 IN  /\ norm.ok
                     /\ r.overallScore = norm.value.overallScore
                     /\ r.summary = norm.value.summary
                     /\ r.category = norm.value.category
                     /\ r.questions = norm.value.questions
                     /\ r.finalAssessment = norm.value.finalAssessment

C5_Witness ==
  /\ SingleComprehensive
  /\ pc = "returned"
  /\ OpCount("call") = 4 /\ OpCount("return") = 4
  /\ returned[1].overallScore = 90
  /\ returned[1].finalAssessment = <<"F2">>

\* C6: in a single-text comprehensive call a failing LLM call of any phase is
\* the last thing the call does with the LLM: no later call is issued, the
\* Result Store stays empty and the call raises without a result.
C6_PhaseFailureAborts ==
  SingleComprehensive =>
    \A k \in TraceIdx("fail") :
      /\ k = Len(llmTrace)
      /\ llmTrace[k].phase \in 1..4
      /\ pc = "raised"
      /\ error = "LLM call failed: provider error"
      /\ returned = << >>
      /\ DOMAIN results = {}

C6_Witness ==
  /\ SingleComprehensive
  /\ pc = "raised"
  /\ llmTrace[Len(llmTrace)].op = "fail"
  /\ llmTrace[Len(llmTrace)].phase = 2
  /\ OpCount("call") = 2

\* C7 (as claimed): every returned result has its overallScore and every
\* question score in 0..100, on the JSON parse path as on the fallback path.
C7_ScoresInRange ==
  pc = "returned" =>
    /\ returned[1].overallScore \in 0..100
    /\ \A k \in DOMAIN returned[1].questions : returned[1].questions[k].score \in 0..100

\* C8: the synthesized overallScore is the mean, rounded to a nearest integer,
\* of the overallScore of exactly the chunks whose pipeline succeeded.
C8_OverallIsRoundedMeanOfSuccessful ==
  (pc = "returned" /\ HasSelected) =>
    IsRoundedMean(returned[1].overallScore,
                  SumSeq(MapSeq(OkUnits, LAMBDA e : e.result[1].overallScore)),
                  Len(OkUnits))

C8_Witness ==
  /\ pc = "returned"
  /\ NSelected = 3
  /\ ~unitLog[1].ok
  /\ unitLog[2].ok /\ unitLog[2].result[1].overallScore = 80
  /\ unitLog[3].ok /\ unitLog[3].result[1].overallScore = 100
  /\ returned[1].overallScore = 90

\* C9: the synthesized questions are one entry per distinct question text of
\* the successful chunks, in order of first occurrence; the answer is the
\* answers given for that text joined with " // " in chunk order and the
\* score is the rounded mean of the scores given for it.
C9_QuestionsGroupedByText ==
  (pc = "returned" /\ HasSelected) =>
    LET allQ == Flatten(MapSeq(OkUnits, LAMBDA e : e.result[1].questions))
        sq == returned[1].questions
        texts == { allQ[k].question : k \in DOMAIN allQ }
        first(t) == CHOOSE k \in DOMAIN allQ :
                      /\ allQ[k].question = t
                      /\ \A j \in 1..(k - 1) : allQ[j].question # t
    IN  /\ Len(sq) = Cardinality(texts)
        /\ \A j \in DOMAIN sq : sq[j].question \in texts
        /\ \A j, k \in DOMAIN sq : j < k => first(sq[j].question) < first(sq[k].question)
        /\ \A j \in DOMAIN sq :
             LET g == SelectSeq(allQ, LAMBDA q : q.question = sq[j].question)
             IN  /\ sq[j].answer = Join(MapSeq(g, LAMBDA q : q.answer), " // ")
                 /\ IsRoundedMean(sq[j].score, SumSeq(MapSeq(g, LAMBDA q : q.score)), Len(g))

C9_Witness ==
  /\ pc = "returned"
  /\ NSelected = 2
  /\ AllUnitsOk
  /\ Len(returned[1].questions) = 2
  /\ returned[1].questions[1].question = "Q2"
  /\ returned[1].questions[1].answer = <<"b3", " // ", "b4", " // ", "b2">>
  /\ returned[1].questions[2].answer = <<"a3", " // ", "a2">>

\* C10 (as claimed): a call that returns has added exactly one entry to the
\* Result Store, also when it is chunked; a call that raises has added none;
\* an entry, once stored, is never changed or removed.
C10_OneStoreEntryPerCall ==
  /\ [](pc = "returned" => Cardinality(DOMAIN results) = 1)
  /\ [](pc = "raised" => DOMAIN results = {})
  /\ [][\A id \in DOMAIN results : id \in DOMAIN results' /\ results'[id] = results[id]]_vars

\* C13 (as claimed): a call whose request carries a chunk list of which no
\* chunk is selected raises "No chunks selected for analysis" and issues no
\* LLM call.
C13_NoSelectedChunkRaises ==
  (Started /\ Len(request.chunks) > 0 /\ ~HasSelected) =>
    /\ pc = "raised"
    /\ error = "No chunks selected for analysis"
    /\ OpCount("call") = 0

\* Number of LLM calls in flight after the first n entries of the trace.
InFlight(n) ==
  Cardinality({ k \in TraceIdx("call") : k <= n })
    - Cardinality({ k \in TraceIdx("return") \cup TraceIdx("fail") : k <= n })

\* The text of unit u: the u-th selected chunk's, or request.text for unit 0.
TextOfUnit(u) == IF u = 0 THEN request.text ELSE ChunkText(SelectedId(u))

\* C19: within one call at most one LLM call is in flight at any moment and
\* none during an inter-chunk delay; the selected chunks are processed one at
\* a time in the order of the request's chunk list, a chunk's first LLM call
\* is issued only after the previous chunk's pipeline has finished, and no
\* unselected chunk is sent to the LLM.
C19_StrictlySequential ==
  /\ \A n \in 0..Len(llmTrace) : InFlight(n) \in {0, 1}
  /\ (pc = "llm") = (InFlight(Len(llmTrace)) = 1)
  /\ \A k \in TraceIdx("delay") :
        /\ InFlight(k) = 0
        /\ k < Len(llmTrace) => llmTrace[k + 1].op = "wake"
  /\ \A j, k \in DOMAIN llmTrace : j < k => llmTrace[j].unit <= llmTrace[k].unit
  /\ HasSelected =>
        \A k \in TraceIdx("call") :
          LET u == llmTrace[k].unit
          IN  /\ u \in 1..NSelected
              /\ llmTrace[k].text = ChunkText(SelectedId(u))
              /\ \A v \in 1..(u - 1) :
                    /\ SelectedId(v) < SelectedId(u)
                    /\ \E e \in DOMAIN unitLog : unitLog[e].unit = v
  /\ \A e \in DOMAIN unitLog : \A k \in CallsOfUnit(unitLog[e].unit) :
        \E j \in TraceIdx("return") \cup TraceIdx("fail") :
          j > k /\ llmTrace[j].unit = unitLog[e].unit

C19_Witness ==
  /\ pc = "returned"
  /\ Len(request.chunks) = 3
  /\ SelectedIds = {1, 3}
  /\ request.mode.length = "long"
  /\ AllUnitsOk
  /\ OpCount("call") = 8
  /\ OpCount("delay") = 1

\* The sections of a prompt that quote a response, and those that carry a text.
QuotedResponses(prompt) ==
  { prompt[k].response : k \in { j \in DOMAIN prompt : prompt[j].response # NoRaw } }
QuotedTexts(prompt) ==
  { prompt[k].text : k \in { j \in DOMAIN prompt : prompt[j].text # NoText } }

\* The response that phase ph of unit u returned, as the trace recorded it.
ReturnedBy(u, ph) ==
  { llmTrace[k].response :
      k \in { j \in TraceIdx("return") : llmTrace[j].unit = u /\ llmTrace[j].phase = ph } }

\* C20: in a "-long" mode the phase-2 prompt quotes the phase-1 response, the
\* phase-3 prompt the phase-2 response and the phase-4 prompt the responses
\* of phases 1, 2 and 3, each as that phase of the same unit returned it, and
\* each of these prompts carries the text of the current unit and no other.
C20_PromptsChainPhases ==
  \A k \in TraceIdx("call") :
    LET u == llmTrace[k].unit
        ph == llmTrace[k].phase
        prompt == llmTrace[k].prompt
    IN  ph >= 2 =>
          /\ request.mode.length = "long"
          /\ QuotedTexts(prompt) = { TextOfUnit(u) }
          /\ ph = 2 => /\ ReturnedBy(u, 1) # {}
                       /\ QuotedResponses(prompt) = ReturnedBy(u, 1)
          /\ ph = 3 => /\ ReturnedBy(u, 2) # {}
                       /\ QuotedResponses(prompt) = ReturnedBy(u, 2)
          /\ ph = 4 => /\ \A q \in 1..3 : ReturnedBy(u, q) # {}
                       /\ QuotedResponses(prompt)
                            = ReturnedBy(u, 1) \cup ReturnedBy(u, 2) \cup ReturnedBy(u, 3)
                       /\ \E a, b, c \in DOMAIN prompt :
                            /\ a < b /\ b < c
                            /\ ReturnedBy(u, 1) = { prompt[a].response }
                            /\ ReturnedBy(u, 2) = { prompt[b].response }
                            /\ ReturnedBy(u, 3) = { prompt[c].response }

C20_Witness ==
  /\ request.mode.length = "long"
  /\ NSelected = 2
  /\ pc = "llm" /\ i = 2 /\ phase = 4
  /\ Len(llmTrace[Len(llmTrace)].prompt) = 7

\* The statuses of the LLM calls and the events of one pipeline, in order.
CallStatuses == {"llm-call", "phase1", "phase2", "phase3", "phase4"}
PipelineEvents == CallStatuses \cup {"parsing", "progress"}

\* What may directly precede an event of a pipeline.
PipelinePredecessors(ev) ==
  IF ev = "phase1" \/ ev = "llm-call"
  THEN IF HasSelected THEN {"chunk-processing"} ELSE {"initialization"}
  ELSE IF ev = "phase2" THEN {"phase1"}
  ELSE IF ev = "phase3" THEN {"phase2"}
  ELSE IF ev = "phase4" THEN {"phase3"}
  ELSE IF ev = "parsing" THEN {IF request.mode.length = "long" THEN "phase4" ELSE "llm-call"}
  ELSE {"parsing"}

EventIdx(ev) == { k \in DOMAIN events : events[k] = ev }

\* Which LLM call is issued next, and whether a delay is started, follows from
\* the mode and the chunk selection of the request and from the outcome of the
\* calls before it.
CallsFollowOutcomes ==
  /\ \A k \in TraceIdx("call") :
        IF k = 1
        THEN /\ llmTrace[k].unit = (IF HasSelected THEN 1 ELSE 0)
             /\ llmTrace[k].phase = FirstPhase(request)
        ELSE IF llmTrace[k - 1].op = "return" /\ llmTrace[k - 1].phase \in 1..3
        THEN /\ llmTrace[k].unit = llmTrace[k - 1].unit
             /\ llmTrace[k].phase = llmTrace[k - 1].phase + 1
        ELSE /\ llmTrace[k - 1].op \in {"return", "fail", "wake"}
             /\ llmTrace[k].unit = llmTrace[k - 1].unit + 1
             /\ llmTrace[k].phase = FirstPhase(request)
  /\ \A k \in TraceIdx("delay") :
        /\ llmTrace[k - 1].op = "return"
        /\ llmTrace[k - 1].phase \in {0, 4}
        /\ llmTrace[k].unit = llmTrace[k - 1].unit
        /\ llmTrace[k].unit < NSelected
        /\ \E e \in DOMAIN unitLog : unitLog[e].unit = llmTrace[k].unit /\ unitLog[e].ok
  /\ \A k \in TraceIdx("wake") : llmTrace[k - 1].op = "delay"
  /\ \A e \in DOMAIN unitLog :
        (unitLog[e].ok /\ 0 < unitLog[e].unit /\ unitLog[e].unit < NSelected) =>
          \E k \in TraceIdx("delay") : llmTrace[k].unit = unitLog[e].unit
  /\ Started =>
        /\ pc = "llm" <=> llmTrace[Len(llmTrace)].op = "call"
        /\ pc = "delay" <=> llmTrace[Len(llmTrace)].op = "delay"
        /\ Done =>
              /\ llmTrace[Len(llmTrace)].op \in {"return", "fail"}
              /\ llmTrace[Len(llmTrace)].unit = NSelected
              /\ llmTrace[Len(llmTrace)].phase \notin 1..3 \/ llmTrace[Len(llmTrace)].op = "fail"

----------------------------------------------------------------------------
\* Requests that carry a critique of a previous analysis

\* request.critique: missing, empty, blank, and with and without blanks around.
Critiques == { << >>, << " " >>, << " ", "fix", " " >>, << "fix" >> }

CritiqueRequests ==
  LET base == { [text |-> RequestText, mode |-> [kind |-> "cognitive", length |-> l],
                 chunks |-> cs] :
                  l \in {"short", "long"},
                  cs \in { << >>,
                           << [id |-> 1, text |-> ChunkText(1), selected |-> TRUE],
                              [id |-> 2, text |-> ChunkText(2), selected |-> TRUE] >> } }
  IN  base \cup { [text |-> r.text, mode |-> r.mode, chunks |-> r.chunks, critique |-> c] :
                    r \in base, c \in Critiques }

\* One response that parses and one that does not.
CritiqueResponses == { r \in RawResponses : r.summary \in { <<"S1">>, <<"S8">> } }

CritiqueNext ==
  \/ \E req \in CritiqueRequests, ent \in Entries : Analyze(req, ent)
  \/ \E rawResponse \in CritiqueResponses \cup { PhaseResponse(k) : k \in 1..3 } :
        LLMReturn(rawResponse)
  \/ LLMFail
  \/ DelayElapsed

CritiqueSpec == Init /\ [][CritiqueNext]_allVars

\* The request with its critique removed.
WithoutCritique(req) == [text |-> req.text, mode |-> req.mode, chunks |-> req.chunks]

\* The responses of the earlier phases of the unit of the call at k.
EarlierResponses(k) ==
  LET idx == { j \in 1..(k - 1) : /\ llmTrace[j].op = "return"
                                   /\ llmTrace[j].unit = llmTrace[k].unit
                                   /\ llmTrace[j].phase \in 1..3 }
  IN  [ph \in 1..Cardinality(idx) |->
         llmTrace[CHOOSE j \in idx : llmTrace[j].phase = ph].response]

CritiqueSections(prompt) ==
  SelectSeq(prompt, LAMBDA sec : sec.label = "CRITIQUE OF PREVIOUS ANALYSIS:")

NonBlank(str) == \E k \in DOMAIN str : str[k] # " "

\* C27: the prompt of a STANDARD call and of phase 1 holds the critique block,
\* quoting the trimmed critique, exactly when request.critique is non-blank;
\* with a missing or blank critique it is the prompt built without a
\* critique; the prompts of phases 2 to 4 are those built without a critique;
\* the calls and delays follow from the request's mode and chunks and the
\* outcomes alone.
C27_CritiqueOnlyInFirstPrompt ==
  /\ \A k \in TraceIdx("call") :
        LET prompt == llmTrace[k].prompt
            plain == PromptOf(WithoutCritique(request), llmTrace[k].unit, llmTrace[k].phase,
                              EarlierResponses(k))
        IN  IF llmTrace[k].phase \in {0, 1}
            THEN IF NonBlank(CritiqueOf(request))
                 THEN /\ Len(CritiqueSections(prompt)) = 1
                      /\ CritiqueSections(prompt)[1].text.quote = Trim(CritiqueOf(request))
                      /\ SelectSeq(prompt,
                                   LAMBDA sec : sec.label # "CRITIQUE OF PREVIOUS ANALYSIS:")
                           = plain
                 ELSE prompt = plain
            ELSE prompt = plain
  /\ CallsFollowOutcomes

\* A comprehensive chunked run with a critique that needs trimming has
\* reached phase 2 of its second chunk.
C27_Witness ==
  /\ CritiqueOf(request) = << " ", "fix", " " >>
  /\ request.mode.length = "long"
  /\ NSelected = 2
  /\ pc = "llm" /\ i = 2 /\ phase = 2

----------------------------------------------------------------------------
\* chunkText, applied to texts written as sequences of characters

\* Longest text and largest chunkSize given to chunkText.
MaxTextLen == 4
MaxChunkSize == 3

\* Characters: two letters, and two characters of the class \s.
Whitespace == {" ", "\n"}
Alphabet == {"a", "b"} \cup Whitespace

Texts == UNION { [1..n -> Alphabet] : n \in 0..MaxTextLen }

\* The text after its leading run of whitespace.
RECURSIVE SkipWhitespace(_)
SkipWhitespace(text) ==
  IF text # << >> /\ Head(text) \in Whitespace THEN SkipWhitespace(Tail(text)) ELSE text

\* text.split(/\s+/) continued from a point where cur is the piece being read:
\* each run of whitespace ends a piece, also an empty one at the start of the
\* text, and the end of the text ends the last piece, also an empty one.
RECURSIVE SplitFrom(_, _)
SplitFrom(text, cur) ==
  IF text = << >> THEN << cur >>
  ELSE IF Head(text) \in Whitespace THEN << cur >> \o SplitFrom(SkipWhitespace(text), << >>)
  ELSE SplitFrom(Tail(text), Append(cur, Head(text)))

SplitWhitespace(text) == SplitFrom(text, << >>)

\* chunkText.length > 200 ? chunkText.substring(0, 200) + '...' : chunkText
PreviewLen == 200
Preview(chunkText) ==
  IF Len(chunkText) > PreviewLen
  THEN SubSeq(chunkText, 1, PreviewLen) \o << ".", ".", "." >>
  ELSE chunkText

\* words.slice(from, to) with 0-based from and exclusive to.
Slice(words, from, to) == SubSeq(words, from + 1, Min(to, Len(words)))

\* The chunks pushed by the loop from index from (0-based) on; n chunks exist.
RECURSIVE ChunksFrom(_, _, _, _)
ChunksFrom(words, chunkSize, from, n) ==
  IF from >= Len(words) THEN << >>
  ELSE LET chunkWords == Slice(words, from, from + chunkSize)
           text == Join(chunkWords, " ")
       IN  << [id |-> n + 1, text |-> text, wordCount |-> Len(chunkWords),
               title |-> n + 1, preview |-> Preview(text), selected |-> FALSE] >>
             \o ChunksFrom(words, chunkSize, from + chunkSize, n + 1)

chunkText(text, chunkSize) == ChunksFrom(SplitWhitespace(text), chunkSize, 0, 0)

ChunkerInit ==
  /\ ServiceInit /\ RouteIdle /\ ServerIdle /\ NormalizerIdle /\ ClientIdle /\ ScanIdle
  /\ ckPc = "ready"
  /\ ckText \in Texts
  /\ ckSize \in 1..MaxChunkSize
  /\ ckChunks = << >>

\* A call chunkText(ckText, ckSize).
ChunkTextCall ==
  /\ ckPc = "ready"
  /\ ckPc' = "done"
  /\ ckChunks' = chunkText(ckText, ckSize)
  /\ UNCHANGED << ckText, ckSize, vars, routeVars, serverVars, normalizerVars, clientVars, scanVars >>

ChunkerNext == ChunkTextCall

ChunkerSpec == ChunkerInit /\ [][ChunkerNext]_allVars

\* The whitespace-separated words of a text: its maximal runs of letters.
WordsOf(text) == SelectSeq(SplitWhitespace(text), LAMBDA w : w # << >>)

CeilDiv(a, b) == (a + b - 1) \div b

\* C15 (as claimed): the texts of the chunks, joined in order with single
\* spaces, are the words of the original text separated by single spaces.
C15_ChunksReproduceText ==
  ckPc = "done" =>
    Join(MapSeq(ckChunks, LAMBDA c : c.text), " ") = Join(WordsOf(ckText), " ")

\* C16 (as claimed): chunkText returns ceil(w / chunkSize) chunks for a text
\* of w words; each chunk's wordCount is the number of words of its text and
\* at most chunkSize, only the last chunk may be shorter, and an empty text
\* gives no chunk.
C16_ChunkCountAndSizes ==
  ckPc = "done" =>
    /\ Len(ckChunks) = CeilDiv(Len(WordsOf(ckText)), ckSize)
    /\ \A k \in DOMAIN ckChunks :
          /\ ckChunks[k].wordCount = Len(WordsOf(ckChunks[k].text))
          /\ ckChunks[k].wordCount <= ckSize
          /\ k < Len(ckChunks) => ckChunks[k].wordCount = ckSize
    /\ ckText = << >> => ckChunks = << >>

----------------------------------------------------------------------------
\* The response normalizer of the lenient revision, and both revisions
\* applied to one response

\* baseQuestions: the number of canonical questions of each kind of mode.
BaseQuestionCount(kind) ==
  IF kind = "psychological" THEN 18 ELSE IF kind = "psychopathological" THEN 15 ELSE 24

\* getQuestionsForMode of the lenient revision: all questions in a "-long"
\* mode, the first half (rounded up) in a "-short" mode.  A question is named
\* by its kind and its place in the list.
LenientGetQuestionsForMode(mode) ==
  LET n == BaseQuestionCount(mode.kind)
      m == IF mode.length = "long" THEN n ELSE (n + 1) \div 2
  IN  [k \in 1..m |-> mode.kind \o "#" \o ToString(k)]

LenientValidateAndFixResponse(parsed, mode) ==
  LET summary == IF parsed.summary = << >> THEN <<"Analysis completed">> ELSE parsed.summary
      questions ==
        IF Len(parsed.questions) = 0
        THEN MapSeq(LenientGetQuestionsForMode(mode),
                    LAMBDA q : QA(q, <<"Analysis failed to provide detailed response">>, 50))
        ELSE parsed.questions
      scores == MapSeq(questions, LAMBDA q : IF q.score = 0 THEN 50 ELSE q.score)
  IN  Ok([summary |-> summary,
          category |-> IF parsed.category = << >> THEN getCategoryForMode(mode)
                       ELSE parsed.category,
          questions |-> questions,
          overallScore |-> IF ~parsed.hasOverall \/ parsed.overallScore = 0
                           THEN MathRound(SumSeq(scores), Len(scores))
                           ELSE parsed.overallScore,
          finalAssessment |-> IF parsed.finalAssessment = << >> THEN summary
                              ELSE parsed.finalAssessment])

LenientCreateStructuredResponse(response, mode) ==
  LET matched == SelectSeq(response.questions, MatchesQuestionPattern)
      questionObjects ==
        MapSeq(matched, LAMBDA q : QA(q.question, StripTrailingPunct(q.answer),
                                      Min(100, Max(0, q.score))))
      items == IF Len(questionObjects) > 0 THEN questionObjects
               ELSE MapSeq(LenientGetQuestionsForMode(mode),
                           LAMBDA q : QA(q, <<"Analysis provided">>, 75))
      validScores == SelectSeq(items, LAMBDA it : it.score > 0)
      overall == IF Len(validScores) > 0
                 THEN MathRound(SumSeq(MapSeq(validScores, LAMBDA it : it.score)),
                                Len(validScores))
                 ELSE 75
      summary == IF response.summary # << >> THEN response.summary
                 ELSE <<"Analysis completed">>
  IN  Ok([summary |-> summary,
          category |-> getCategoryForMode(mode),
          questions |-> items,
          overallScore |-> overall,
          finalAssessment |-> summary])

LenientParseAnalysisResponse(response, mode) ==
  IF ~response.json
  THEN LenientCreateStructuredResponse(response, mode)
  ELSE LET validated == LenientValidateAndFixResponse(response, mode)
       IN  IF validated.ok THEN validated
           ELSE LenientCreateStructuredResponse(response, mode)

\* Responses given to the normalizers: with and without a JSON candidate, each
\* field written or not, and question objects that the extraction pattern
\* matches or not.
NormalizerQuestions ==
  { << >>,
    << QA("Q1", <<"a1">>, 80) >>,
    << QA("Q1", <<"a1">>, 80), QA("Q2", <<"b1", ":">>, 0) >>,
    << QA("Q1", << >>, 80) >>,
    << QA("Q1", <<"a1">>, -5) >>,
    << QA("Q1", <<"a1">>, 150), QA("Q2", <<"b1">>, -5) >> }

NormalizerResponses ==
  { Raw(j, s, c, f, ho[1], ho[2], qs) :
      j \in BOOLEAN, s \in { << >>, <<"S">> }, c \in { << >>, <<"C">> },
      f \in { << >>, <<"F">> }, ho \in { <<FALSE, 0>>, <<TRUE, 0>>, <<TRUE, 80>> },
      qs \in NormalizerQuestions }

NormalizerInit ==
  /\ ServiceInit /\ RouteIdle /\ ServerIdle /\ ChunkerIdle /\ ClientIdle /\ ScanIdle
  /\ nzPc = "ready"
  /\ nzResponse \in NormalizerResponses
  /\ nzMode \in Modes
  /\ nzStrict = << >>
  /\ nzLenient = << >>

\* parseAnalysisResponse(nzResponse, nzMode) in the strict revision.
StrictParseCall ==
  /\ nzPc \in {"ready", "lenient"}
  /\ nzPc' = IF nzPc = "ready" THEN "strict" ELSE "both"
  /\ nzStrict' = << parseAnalysisResponse(nzResponse, nzMode) >>
  /\ UNCHANGED << nzResponse, nzMode, nzLenient, vars, routeVars, serverVars, chunkerVars,
                  clientVars, scanVars >>

\* parseAnalysisResponse(nzResponse, nzMode) in the lenient revision.
LenientParseCall ==
  /\ nzPc \in {"ready", "strict"}
  /\ nzPc' = IF nzPc = "ready" THEN "lenient" ELSE "both"
  /\ nzLenient' = << LenientParseAnalysisResponse(nzResponse, nzMode) >>
  /\ UNCHANGED << nzResponse, nzMode, nzStrict, vars, routeVars, serverVars, chunkerVars,
                  clientVars, scanVars >>

NormalizerNext == StrictParseCall \/ LenientParseCall

NormalizerSpec == NormalizerInit /\ [][NormalizerNext]_allVars

SummaryErrors ==
  { "Failed to extract summary from LLM output",
    "LLM failed to provide summary - invalid response structure" }
QuestionErrors ==
  { "Failed to extract any question responses from LLM output",
    "LLM failed to provide question responses - invalid response structure" }

\* What a response offers: a summary is written in it; questions are written
\* in its JSON, or as objects that the extraction pattern matches.
SummaryRecoverable(response) == response.summary # << >>
QuestionsRecoverable(response) ==
  \/ response.json /\ response.questions # << >>
  \/ SelectSeq(response.questions, MatchesQuestionPattern) # << >>

Populated(v) ==
  /\ v.summary # << >>
  /\ v.category # << >>
  /\ v.questions # << >>
  /\ v.finalAssessment # << >>
  /\ v.overallScore \in Int

\* C14 (as claimed): the lenient normalizer returns a value with all five
\* fields populated for every response and never raises; the strict one
\* raises only when the summary or the questions cannot be recovered, its
\* error is one of the summary and question errors, and it names a field
\* that is actually missing from the response.
C14_NormalizerFailurePolicy ==
  /\ nzLenient # << >> => (nzLenient[1].ok /\ Populated(nzLenient[1].value))
  /\ (nzStrict # << >> /\ nzStrict[1].ok) => Populated(nzStrict[1].value)
  /\ (nzStrict # << >> /\ ~nzStrict[1].ok) =>
        /\ ~SummaryRecoverable(nzResponse) \/ ~QuestionsRecoverable(nzResponse)
        /\ nzStrict[1].error \in SummaryErrors \cup QuestionErrors
        /\ nzStrict[1].error \in SummaryErrors => ~SummaryRecoverable(nzResponse)
        /\ nzStrict[1].error \in QuestionErrors => ~QuestionsRecoverable(nzResponse)

\* The rounded arithmetic mean of all question scores of a normalized value.
MeanOfQuestionScores(v) ==
  MathRound(SumSeq(MapSeq(v.questions, LAMBDA q : q.score)), Len(v.questions))

\* C21: when the response writes no overallScore, the overallScore of the
\* normalized value is the rounded arithmetic mean of all its question
\* scores, a score of 0 counting as 0, on the JSON path and on the fallback
\* extraction path of both revisions.
C21_OverallIsMeanOfAllScores ==
  /\ (nzStrict # << >> /\ nzStrict[1].ok /\ ~nzResponse.hasOverall) =>
        nzStrict[1].value.overallScore = MeanOfQuestionScores(nzStrict[1].value)
  /\ (nzLenient # << >> /\ ~nzResponse.hasOverall) =>
        nzLenient[1].value.overallScore = MeanOfQuestionScores(nzLenient[1].value)

\* The response is a JSON object that carries all five fields of the schema.
SchemaComplete(response) ==
  /\ response.json
  /\ response.summary # << >> /\ response.category # << >>
  /\ response.finalAssessment # << >>
  /\ response.questions # << >>
  /\ response.hasOverall /\ response.overallScore \in 0..100

\* The five fields of a response or of a normalized value, scores clamped.
ClampedFields(r) ==
  [summary |-> r.summary, category |-> r.category,
   questions |-> MapSeq(r.questions,
                        LAMBDA q : QA(q.question, q.answer, Min(100, Max(0, q.score)))),
   overallScore |-> Min(100, Max(0, r.overallScore)),
   finalAssessment |-> r.finalAssessment]

\* JSON.stringify of a normalized value, as a response.
Serialize(v) ==
  Raw(TRUE, v.summary, v.category, v.finalAssessment, TRUE, v.overallScore, v.questions)

\* C22: a response that is a valid JSON object carrying all five fields
\* (non-empty questions, overallScore in 0..100) is returned field for field,
\* apart from the clamping of scores, and normalizing the serialization of
\* the returned value gives the same value again.
C22_SchemaJsonReturnedUnchanged ==
  (nzStrict # << >> /\ SchemaComplete(nzResponse)) =>
    /\ nzStrict[1].ok
    /\ ClampedFields(nzStrict[1].value) = ClampedFields(nzResponse)
    /\ parseAnalysisResponse(Serialize(nzStrict[1].value), nzMode) = nzStrict[1]

\* The question objects written in a response, scores clamped to [0,100].
WrittenQuestions(response) ==
  MapSeq(response.questions,
         LAMBDA q : QA(q.question, q.answer, Min(100, Max(0, q.score))))

\* C25: for a response with no parseable JSON candidate in which k >= 1
\* question objects are written, the normalizer returns exactly these k
\* questions, in text order, with their question, answer and (clamped) score.
C25_FallbackExtractsWrittenQuestions ==
  (~nzResponse.json /\ nzResponse.questions # << >>) =>
    /\ nzStrict # << >> =>
          /\ nzStrict[1].ok
          /\ nzStrict[1].value.questions = WrittenQuestions(nzResponse)
    /\ nzLenient # << >> =>
          nzLenient[1].value.questions = WrittenQuestions(nzResponse)

----------------------------------------------------------------------------
\* Route POST /api/analyze: one request, from its arrival to res.end()

SseEvent(type, result, message) == [type |-> type, result |-> result, error |-> message]

\* The handler up to its first await: the body passes analysisRequestSchema and
\* analyzeWithStreaming is called; onUpdate writes each update to res.
RoutePost(req) ==
  /\ ~resEnded
  /\ Analyze(req, "analyzeWithStreaming")

\* The body fails analysisRequestSchema.parse: the catch writes the error
\* event and ends the response; the service is not called.
RouteReject ==
  /\ pc = "idle"
  /\ ~resEnded
  /\ sse' = Append(sse, SseEvent("error", << >>, "Invalid request format"))
  /\ resEnded' = TRUE
  /\ UNCHANGED << vars, serverVars, chunkerVars, normalizerVars, clientVars, scanVars >>

\* Variant: the catch block ends the response without writing the error event.
RouteRespond_silentCatch ==
  /\ pc \in {"returned", "raised"}
  /\ ~resEnded
  /\ sse' = IF pc = "returned"
            THEN Append(sse, SseEvent("complete", returned, ""))
            ELSE sse
  /\ resEnded' = TRUE
  /\ UNCHANGED << vars, serverVars, chunkerVars, normalizerVars, clientVars, scanVars >>

\* analyzeWithStreaming has returned or raised: the handler writes the
\* 'complete' event, or its catch the 'error' event, and ends the response.
RouteRespond ==
  /\ pc \in {"returned", "raised"}
  /\ ~resEnded
  /\ sse' = IF pc = "returned"
            THEN Append(sse, SseEvent("complete", returned, ""))
            ELSE Append(sse, SseEvent("error", << >>, "Analysis failed: " \o error))
  /\ resEnded' = TRUE
  /\ UNCHANGED << vars, serverVars, chunkerVars, normalizerVars, clientVars, scanVars >>

RouteNext ==
  \/ \E req \in Requests : RoutePost(req)
  \/ RouteReject
  \/ \E rawResponse \in RawResponses \cup { PhaseResponse(k) : k \in 1..3 } :
        LLMReturn(rawResponse)
  \/ LLMFail
  \/ DelayElapsed
  \/ RouteRespond

RouteSpec == Init /\ [][RouteNext]_allVars

\* The types of the events written to res so far, in order: one per onUpdate
\* call, then the terminal events.
StreamTypes ==
  MapSeq(events, LAMBDA ph : IF ph = "progress" THEN "progress" ELSE "status")
    \o MapSeq(sse, LAMBDA e : e.type)

Terminal == {"complete", "error"}

\* C17: the event stream of a request ends with exactly one terminal event,
\* written when the response is ended: 'complete' carrying the returned
\* result when the analysis returned, 'error' carrying a message when it
\* raised or the request was invalid; never both, and nothing is written
\* after it.
C17_OneTerminalEvent ==
  /\ [](/\ Cardinality({ k \in DOMAIN StreamTypes : StreamTypes[k] \in Terminal })
             = (IF resEnded THEN 1 ELSE 0)
        /\ resEnded =>
             /\ StreamTypes[Len(StreamTypes)] \in Terminal
             /\ pc \in {"idle", "returned", "raised"}
             /\ pc = "returned" => sse = << SseEvent("complete", returned, "") >>
             /\ pc = "raised" =>
                  /\ sse[1].type = "error"
                  /\ sse[1].error = "Analysis failed: " \o error
             /\ pc = "idle" => sse = << SseEvent("error", << >>, "Invalid request format") >>)
  /\ [][resEnded => UNCHANGED << events, sse, resEnded >>]_allVars

C17_Witness ==
  /\ resEnded
  /\ pc = "returned"
  /\ NSelected = 2
  /\ ~unitLog[1].ok
  /\ StreamTypes[Len(StreamTypes)] = "complete"
  /\ \E k \in DOMAIN StreamTypes : StreamTypes[k] = "progress"

----------------------------------------------------------------------------
\* The server process: several /api/analyze requests served by the one
\* AnalysisService, downloads, and a client that aborts its request

\* Largest number of analyze requests served in one behaviour.
MaxCalls == 2

\* The variables of one call, as a record.
CallState(p, req, ent, idx, ph, prs, cr, cresp, ret, err, evs, trace, log) ==
  [pc |-> p, request |-> req, entry |-> ent, i |-> idx, phase |-> ph,
   phaseResponses |-> prs, combinedResults |-> cr, combinedResponses |-> cresp,
   returned |-> ret, error |-> err, events |-> evs, llmTrace |-> trace,
   unitLog |-> log]

\* A request whose handler has not run yet.
IdleCall ==
  CallState("idle",
            [text |-> RequestText, mode |-> [kind |-> "cognitive", length |-> "short"],
             chunks |-> << >>],
            "analyze", 0, 0, << >>, << >>, << >>, << >>, "", << >>, << >>, << >>)

\* The call whose continuation runs next.
RunningCall ==
  CallState(pc, request, entry, i, phase, phaseResponses, combinedResults,
            combinedResponses, returned, error, events, llmTrace, unitLog)

ServerRequests ==
  { [text |-> RequestText, mode |-> [kind |-> "cognitive", length |-> l], chunks |-> cs] :
      l \in {"short"},
      cs \in { << >>,
               << [id |-> 1, text |-> ChunkText(1), selected |-> TRUE],
                  [id |-> 2, text |-> ChunkText(2), selected |-> TRUE] >> } }

ServerResponses ==
  { Raw(TRUE, <<"S1">>, <<"C1">>, <<"F1">>, TRUE, 80, << QA("Q1", <<"a1">>, 80) >>),
    Raw(TRUE, <<"S2">>, <<"C2">>, <<"F2">>, TRUE, 90,
        << QA("Q1", <<"a2">>, 90), QA("Q2", <<"b2">>, 85) >>) }

ServerInit ==
  /\ ServiceInit /\ RouteIdle /\ ChunkerIdle /\ NormalizerIdle /\ ClientIdle /\ ScanIdle
  /\ cancel = << >>
  /\ others = [k \in 1..(MaxCalls - 1) |-> IdleCall]
  /\ download = << >>

\* The event loop runs the continuation of another request: the running call
\* is suspended at its await (or is idle or finished) and call k takes its
\* place.  The Result Store and the id source are shared by all calls.
Resume(k) ==
  /\ k \in DOMAIN others
  /\ others[k] # RunningCall
  /\ others' = [others EXCEPT ![k] = RunningCall]
  /\ pc' = others[k].pc
  /\ request' = others[k].request
  /\ entry' = others[k].entry
  /\ i' = others[k].i
  /\ phase' = others[k].phase
  /\ phaseResponses' = others[k].phaseResponses
  /\ combinedResults' = others[k].combinedResults
  /\ combinedResponses' = others[k].combinedResponses
  /\ returned' = others[k].returned
  /\ error' = others[k].error
  /\ events' = others[k].events
  /\ llmTrace' = others[k].llmTrace
  /\ unitLog' = others[k].unitLog
  /\ UNCHANGED << results, nextId, cancel, download, routeVars, chunkerVars, normalizerVars,
                  clientVars, scanVars >>

\* this.results.get(id): << >> stands for undefined.
getResult(store, id) == IF id \in DOMAIN store THEN << store[id] >> ELSE << >>

Line(label, value) == [label |-> label, value |-> value]

formatResultAsTxt(result) ==
  << Line("Analysis Mode:", result.mode), Line("Overall Score:", result.overallScore),
     Line("SUMMARY", result.summary), Line("CATEGORY", result.category),
     Line("DETAILED ANALYSIS", result.questions),
     Line("FINAL ASSESSMENT", result.finalAssessment),
     Line("RAW RESPONSE", result.rawResponse) >>

\* Route GET /api/download/:resultId.  never: the first id not produced yet.
Download(id) ==
  /\ download' =
       LET result == getResult(results, id)
       IN  << [id |-> id, never |-> nextId,
               status |-> IF result = << >> THEN 404 ELSE 200,
               body |-> IF result = << >> THEN << >> ELSE formatResultAsTxt(result[1])] >>
  /\ UNCHANGED << vars, cancel, others, routeVars, chunkerVars, normalizerVars, clientVars, scanVars >>

ServerNext ==
  \/ \E req \in ServerRequests : Analyze(req, "analyzeWithStreaming")
  \/ \E rawResponse \in ServerResponses : LLMReturn(rawResponse)
  \/ LLMFail
  \/ DelayElapsed
  \/ \E k \in 1..(MaxCalls - 1) : Resume(k)
  \/ \E id \in DOMAIN results \cup {0, nextId} : Download(id)

ServerSpec == ServerInit /\ [][ServerNext]_allVars

\* The ids of the Result Store entries that the running call has written.
StoredByCall(log, ret) ==
  { log[k].result[1].id : k \in { e \in DOMAIN log : log[e].ok } }
    \cup { ret[k].id : k \in DOMAIN ret }

\* The client aborts the fetch of the request (handleNewAnalysis): the
\* connection closes.
\* Neither the route nor the service observes the closed connection: nothing
\* of the call changes.  cancel records what the call had done by then.
ClientAbort ==
  /\ pc \in {"llm", "delay"}
  /\ cancel = << >>
  /\ cancel' = << [calls |-> Cardinality({ k \in DOMAIN llmTrace : llmTrace[k].op = "call" }),
                   delays |-> Cardinality({ k \in DOMAIN llmTrace : llmTrace[k].op = "delay" }),
                   stored |-> StoredByCall(unitLog, returned)] >>
  /\ UNCHANGED << vars, others, download, routeVars, chunkerVars, normalizerVars, clientVars, scanVars >>

\* One request whose client may abort it.
CancelNext ==
  \/ \E req \in { r \in Requests : Len(r.chunks) <= 2 } : RoutePost(req)
  \/ \E rawResponse \in ServerResponses \cup { PhaseResponse(k) : k \in 1..3 } :
        LLMReturn(rawResponse)
  \/ LLMFail
  \/ DelayElapsed
  \/ RouteRespond
  \/ ClientAbort

CancelSpec == Init /\ [][CancelNext]_allVars

\* C12: once the client has aborted its request, the call issues no further
\* LLM call, starts no further inter-chunk delay and writes no further entry
\* into the Result Store.
C12_CancelStopsCall ==
  cancel # << >> =>
    /\ OpCount("call") = cancel[1].calls
    /\ OpCount("delay") = cancel[1].delays
    /\ StoredByCall(unitLog, returned) = cancel[1].stored

\* All calls of the process: the running one first.
Calls == << RunningCall >> \o others

\* The results that call c has produced so far: the result of each chunk that
\* succeeded and the result it returned.
ProducedBy(c) ==
  { c.unitLog[k].result[1] : k \in { e \in DOMAIN c.unitLog : c.unitLog[e].ok } }
    \cup { c.returned[k] : k \in DOMAIN c.returned }

\* C11: every result a call has produced is retrievable with getResult(id)
\* in every later state and is the result as it was produced; results of
\* different calls, also of interleaved ones, carry different ids; getResult
\* of an id that no call produced is undefined, and the download route answers
\* 404 for exactly those ids and the formatted result for the others.
C11_ResultsRetrievable ==
  /\ \A a \in DOMAIN Calls : \A r \in ProducedBy(Calls[a]) :
        getResult(results, r.id) = << r >>
  /\ \A a, b \in DOMAIN Calls :
        a # b => { r.id : r \in ProducedBy(Calls[a]) } \cap { r.id : r \in ProducedBy(Calls[b]) } = {}
  /\ \A id \in {0, nextId} \cup DOMAIN results :
        getResult(results, id) = << >>
          <=> ~\E a \in DOMAIN Calls : \E r \in ProducedBy(Calls[a]) : r.id = id
  /\ download # << >> =>
        /\ download[1].status \in {200, 404}
        /\ download[1].status = 404 <=> download[1].id \notin 1..(download[1].never - 1)
        /\ download[1].status = 200 =>
              \E a \in DOMAIN Calls : \E r \in ProducedBy(Calls[a]) :
                 /\ r.id = download[1].id
                 /\ download[1].body = formatResultAsTxt(r)

\* Two interleaved calls have returned: the chunked one holds ids 1, 3 and 4,
\* the other one id 2, which is downloaded after both have finished.
C11_Witness ==
  /\ pc = "returned"
  /\ others[1].pc = "returned"
  /\ { r.id : r \in ProducedBy(RunningCall) } = {1, 3, 4}
  /\ others[1].returned[1].id = 2
  /\ download # << >>
  /\ download[1].id = 2
  /\ download[1].never = 5
  /\ download[1].status = 200

----------------------------------------------------------------------------
\* Termination of the call and the number of its LLM calls

\* The awaited LLM call comes to an end: it returns one of two final
\* responses (one that parses, one that does not) or a phase response, or it
\* fails.
LLMOutcome ==
  \/ \E rawResponse \in CritiqueResponses \cup { PhaseResponse(k) : k \in 1..3 } :
        LLMReturn(rawResponse)
  \/ LLMFail

LiveNext ==
  \/ \E req \in Requests, ent \in Entries : Analyze(req, ent)
  \/ LLMOutcome
  \/ DelayElapsed

\* The call under the assumption that every LLM call returns or fails and
\* that every delay elapses.
LiveSpec ==
  /\ Init
  /\ [][LiveNext]_allVars
  /\ WF_allVars(LLMOutcome)
  /\ WF_allVars(DelayElapsed)

\* The units of work of the call: the selected chunks, or the whole text.
UnitCount == IF HasSelected THEN NSelected ELSE 1

CallsBounded == OpCount("call") <= 4 * UnitCount

\* No two LLM calls are made for the same phase of the same unit.
NoCallRetried ==
  \A j, k \in TraceIdx("call") :
    (llmTrace[j].unit = llmTrace[k].unit /\ llmTrace[j].phase = llmTrace[k].phase) => j = k

\* C30: every call of analyze comes to an end, returning or raising, when
\* every LLM call returns or fails and every delay elapses; it makes at most
\* four LLM calls per selected chunk (four for a single text), and none twice.
C30_TerminatesWithBoundedCalls ==
  /\ Started ~> Done
  /\ []CallsBounded
  /\ []NoCallRetried

\* A comprehensive call on two chunks has returned after eight LLM calls and
\* one delay, no call having failed.
C30_Witness ==
  /\ pc = "returned"
  /\ request.mode.length = "long"
  /\ NSelected = 2
  /\ OpCount("call") = 4 * UnitCount
  /\ OpCount("delay") = 1
  /\ OpCount("fail") = 0

----------------------------------------------------------------------------
\* The client (TextAnalyzer): the input text, its chunks, and the requests it
\* sends to /api/analyze.  A text is represented by its number of words.

\* isChunkingRequired: wordCount > 1000.
ChunkThreshold == 1000

\* The default chunkSize of chunkText, used by /api/chunk.
DefaultChunkSize == 1000

\* The texts the user enters: empty, short, at the threshold, just over it,
\* and over two chunks.
InputTexts == {0, 1, ChunkThreshold, ChunkThreshold + 1, 2 * DefaultChunkSize + 1}

\* /api/chunk of a text of n words, none of them empty: chunkText(text).
ClientChunkText(n) ==
  [k \in 1..CeilDiv(n, DefaultChunkSize) |->
     [id |-> k,
      wordCount |-> IF k * DefaultChunkSize <= n THEN DefaultChunkSize
                    ELSE n - (k - 1) * DefaultChunkSize,
      selected |-> FALSE]]

AnalysisRequest(text, chunkList, origin) ==
  [text |-> text, chunks |-> chunkList, origin |-> origin]

\* Largest number of performStreamingAnalysis calls in progress at a time.
MaxRuns == 2

\* The 'error' event that /api/analyze writes when the analysis fails.
ErrorEvents == {"Analysis failed: LLM error"}

\* The errors thrown by fetch, by the response checks and by reader.read().
FetchErrors == {"HTTP error! status: 500"}

Toast(title, description) == [title |-> title, description |-> description]

RemoveAt(seq, k) == [j \in 1..(Len(seq) - 1) |-> IF j < k THEN seq[j] ELSE seq[j + 1]]

otherVars == << vars, routeVars, serverVars, chunkerVars, normalizerVars, scanVars >>

\* performStreamingAnalysis(request), up to its fetch.  A call in progress is
\* the sequence of the 'error' messages it has read from the stream.
performStreamingAnalysis(request_) ==
  /\ Len(runs) < MaxRuns
  /\ sent' = << request_ >>
  /\ isAnalyzing' = TRUE
  /\ abortController' = TRUE
  /\ runs' = Append(runs, << >>)
  /\ UNCHANGED toast

\* The finally block of performStreamingAnalysis, ending call k.
StreamFinally(k) ==
  /\ runs' = RemoveAt(runs, k)
  /\ abortController' = FALSE
  /\ isAnalyzing' = FALSE

\* The user edits the input box.
handleTextInput(text) ==
  /\ inputText' = text
  /\ IF text > ChunkThreshold
     THEN /\ chunkPending' = chunkPending \cup {text}
          /\ UNCHANGED clientChunks
     ELSE /\ clientChunks' = << >>
          /\ UNCHANGED chunkPending
  /\ UNCHANGED << currentResult, isAnalyzing, runs, abortController, toast, sent >>
  /\ UNCHANGED otherVars

\* The Clear button: setInputText("").
ClearInput ==
  /\ inputText' = 0
  /\ UNCHANGED << clientChunks, chunkPending, currentResult, isAnalyzing, runs,
                  abortController, toast, sent >>
  /\ UNCHANGED otherVars

\* chunkMutation.onSuccess: the chunks of the mutated text replace the state.
ChunkMutationSuccess(text) ==
  /\ text \in chunkPending
  /\ chunkPending' = chunkPending \ {text}
  /\ clientChunks' = ClientChunkText(text)
  /\ UNCHANGED << inputText, currentResult, isAnalyzing, runs, abortController, toast, sent >>
  /\ UNCHANGED otherVars

\* chunkMutation.onError: a toast only.
ChunkMutationError(text) ==
  /\ text \in chunkPending
  /\ chunkPending' = chunkPending \ {text}
  /\ UNCHANGED << inputText, clientChunks, currentResult, isAnalyzing, runs,
                  abortController, toast, sent >>
  /\ UNCHANGED otherVars

\* ChunkSelector.toggleChunk(chunkId).
toggleChunk(chunkId) ==
  /\ chunkId \in DOMAIN clientChunks
  /\ clientChunks' = [clientChunks EXCEPT ![chunkId].selected = ~@]
  /\ UNCHANGED << inputText, chunkPending, currentResult, isAnalyzing, runs,
                  abortController, toast, sent >>
  /\ UNCHANGED otherVars

\* The Analyze button (disabled while analyzing or with an empty text): the
\* calls that pass the guards and send a request.
handleAnalyze ==
  /\ ~isAnalyzing
  /\ inputText # 0
  /\ inputText > ChunkThreshold =>
       /\ Len(clientChunks) # 0
       /\ Len(SelectSeq(clientChunks, LAMBDA chunk : chunk.selected)) # 0
  /\ performStreamingAnalysis(AnalysisRequest(inputText, clientChunks, "analyze"))
  /\ UNCHANGED << inputText, clientChunks, chunkPending, currentResult >>
  /\ UNCHANGED otherVars

\* Regenerate with critique (offered while a result is shown and no analysis
\* runs): the request carries the text and the critique, and no chunks.
performCritiqueAnalysis ==
  /\ currentResult
  /\ ~isAnalyzing
  /\ inputText # 0
  /\ performStreamingAnalysis(AnalysisRequest(inputText, << >>, "critique"))
  /\ UNCHANGED << inputText, clientChunks, chunkPending, currentResult >>
  /\ UNCHANGED otherVars

\* The Meta-Analysis button (enabled while a result is shown): the request
\* carries the text and the original analysis, and no chunks.
handleMetaAnalysis ==
  /\ currentResult
  /\ inputText # 0
  /\ performStreamingAnalysis(AnalysisRequest(inputText, << >>, "meta-analysis"))
  /\ UNCHANGED << inputText, clientChunks, chunkPending, currentResult >>
  /\ UNCHANGED otherVars

\* Call k reads a 'progress' event: the partial result is displayed.  The
\* server writes nothing after an 'error' event.
StreamProgress(k) ==
  /\ k \in DOMAIN runs
  /\ runs[k] = << >>
  /\ currentResult' = TRUE
  /\ UNCHANGED << inputText, clientChunks, chunkPending, isAnalyzing, runs,
                  abortController, toast, sent >>
  /\ UNCHANGED otherVars

\* Call k reads the 'complete' event: the result is displayed, the toast
\* "Analysis completed" is shown, and the call returns through finally.
StreamComplete(k) ==
  /\ k \in DOMAIN runs
  /\ runs[k] = << >>
  /\ currentResult' = TRUE
  /\ toast' = Toast("Analysis completed", "Overall score")
  /\ StreamFinally(k)
  /\ UNCHANGED << inputText, clientChunks, chunkPending, sent >>
  /\ UNCHANGED otherVars

\* Call k reads an 'error' event: the Error thrown for it is caught by the
\* catch around JSON.parse, which logs it and goes on with the next line.
StreamError(k, message) ==
  /\ k \in DOMAIN runs
  /\ runs[k] = << >>
  /\ runs' = [runs EXCEPT ![k] = << message >>]
  /\ UNCHANGED << inputText, clientChunks, chunkPending, currentResult, isAnalyzing,
                  abortController, toast, sent >>
  /\ UNCHANGED otherVars

\* reader.read() of call k reports done: the loop ends, then finally.
StreamClosed(k) ==
  /\ k \in DOMAIN runs
  /\ StreamFinally(k)
  /\ UNCHANGED << inputText, clientChunks, chunkPending, currentResult, toast, sent >>
  /\ UNCHANGED otherVars

\* fetch, a response check or reader.read() of call k throws: the outer catch
\* shows the toast "Analysis failed", then finally.
StreamFailure(k, message) ==
  /\ k \in DOMAIN runs
  /\ toast' = Toast("Analysis failed", message)
  /\ StreamFinally(k)
  /\ UNCHANGED << inputText, clientChunks, chunkPending, currentResult, sent >>
  /\ UNCHANGED otherVars

\* The New Analysis button: abort and clear.  The controller is that of the
\* call started last; the aborted call ends in silence.  Mutations in flight
\* stay.
handleNewAnalysis ==
  /\ inputText' = 0
  /\ currentResult' = FALSE
  /\ clientChunks' = << >>
  /\ isAnalyzing' = FALSE
  /\ abortController' = FALSE
  /\ runs' = IF abortController THEN RemoveAt(runs, Len(runs)) ELSE runs
  /\ UNCHANGED << chunkPending, toast, sent >>
  /\ UNCHANGED otherVars

ClientNext ==
  \/ \E text \in InputTexts : handleTextInput(text)
  \/ ClearInput
  \/ \E text \in InputTexts : ChunkMutationSuccess(text)
  \/ \E text \in InputTexts : ChunkMutationError(text)
  \/ \E chunkId \in 1..CeilDiv(2 * DefaultChunkSize + 1, DefaultChunkSize) : toggleChunk(chunkId)
  \/ handleAnalyze
  \/ performCritiqueAnalysis
  \/ handleMetaAnalysis
  \/ \E k \in 1..MaxRuns : StreamProgress(k)
  \/ \E k \in 1..MaxRuns : StreamComplete(k)
  \/ \E k \in 1..MaxRuns, message \in ErrorEvents : StreamError(k, message)
  \/ \E k \in 1..MaxRuns : StreamClosed(k)
  \/ \E k \in 1..MaxRuns, message \in FetchErrors : StreamFailure(k, message)
  \/ handleNewAnalysis

ClientSpec == Init /\ [][ClientNext]_allVars

\* C18: a request the client sends for a text of more than 1000 words carries
\* chunks of which at least one is selected, whichever way the analysis was
\* started.
C18_MandatoryChunking ==
  \A k \in DOMAIN sent :
    sent[k].text > ChunkThreshold =>
      \E c \in DOMAIN sent[k].chunks : sent[k].chunks[c].selected

\* When no call of performStreamingAnalysis is in progress, whichever way the
\* calls ended (complete, error, abort, stream closed), isAnalyzing is false.
NotAnalyzingAfterStreams == runs = << >> => ~isAnalyzing

\* C28: a call that has read an 'error' event has reported the failure, the
\* toast "Analysis failed" carrying the event's message; and once every
\* stream has ended the client is not analyzing.
C28_ErrorEventReported ==
  /\ \A k \in DOMAIN runs :
       runs[k] # << >> => toast = Toast("Analysis failed", runs[k][1])
  /\ NotAnalyzingAfterStreams

\* A chunk list without its selection marks.
Unselected(chunkList) ==
  [k \in DOMAIN chunkList |-> [chunkList[k] EXCEPT !.selected = FALSE]]

\* The chunk list is empty or the chunking of the text.
ChunksOfText(chunkList, text) ==
  Unselected(chunkList) \in { << >>, ClientChunkText(text) }

\* The request sent by the Analyze button carries no chunks or the chunking of
\* its text.
RequestChunksOfText ==
  \A k \in DOMAIN sent :
    sent[k].origin = "analyze" => ChunksOfText(sent[k].chunks, sent[k].text)

\* C29: under every interleaving of text edits, the Clear button and the
\* answers of /api/chunk, the chunk list is empty or the chunking of the
\* current input text, and so are the chunks that a request carries.
C29_ChunksOfCurrentText ==
  /\ ChunksOfText(clientChunks, inputText)
  /\ RequestChunksOfText

----------------------------------------------------------------------------
\* parseAnalysisResponse, method 2: the JSON candidate found by brace matching
\* in a response text without a fenced block.  The text is a sequence of
\* characters.

\* Largest length of a response text.
MaxResponseLen == 5

\* The characters that the loop tells apart: '{', '}' and any other.
ResponseChars == {"{", "}", "a"}

ResponseTexts == UNION { [1..n -> ResponseChars] : n \in 0..MaxResponseLen }

\* The loop from index k on (1-based), with braceCount and start (0 for -1).
\* << >> stands for jsonStr = "".
RECURSIVE BraceMatchFrom(_, _, _, _)
BraceMatchFrom(response, k, braceCount, start) ==
  IF k > Len(response) THEN << >>
  ELSE IF response[k] = "{"
  THEN BraceMatchFrom(response, k + 1, braceCount + 1, IF start = 0 THEN k ELSE start)
  ELSE IF response[k] = "}"
  THEN IF braceCount - 1 = 0 /\ start # 0
       THEN << SubSeq(response, start, k) >>
       ELSE BraceMatchFrom(response, k + 1, braceCount - 1, start)
  ELSE BraceMatchFrom(response, k + 1, braceCount, start)

BraceMatch(response) == BraceMatchFrom(response, 1, 0, 0)

CandidateInit ==
  /\ ServiceInit /\ RouteIdle /\ ServerIdle /\ ChunkerIdle /\ NormalizerIdle /\ ClientIdle
  /\ scPc = "ready"
  /\ scText \in ResponseTexts
  /\ scOut = << >>

\* The brace matching of parseAnalysisResponse applied to scText.
BraceMatchCall ==
  /\ scPc = "ready"
  /\ scPc' = "done"
  /\ scOut' = BraceMatch(scText)
  /\ UNCHANGED << scText, vars, routeVars, serverVars, chunkerVars, normalizerVars,
                  clientVars >>

CandidateNext == BraceMatchCall

CandidateSpec == CandidateInit /\ [][CandidateNext]_allVars

\* Number of '{' minus number of '}' in text[a..b].
Depth(text, a, b) ==
  Cardinality({ k \in a..b : text[k] = "{" }) - Cardinality({ k \in a..b : text[k] = "}" })

FirstOpen(text) == CHOOSE k \in DOMAIN text : text[k] = "{" /\ \A j \in 1..(k - 1) : text[j] # "{"

\* The positions at which the depth counted from the first '{' is zero.
Closings(text) == { k \in FirstOpen(text)..Len(text) : Depth(text, FirstOpen(text), k) = 0 }

\* C24: when the first '{' of the text is closed, the candidate is the
\* substring from the first '{' to the first '}' that brings the depth
\* counted from that '{' back to zero, whatever precedes the first '{'; a
\* candidate that is found starts with '{', ends with '}' and is balanced.
C24_CandidateIsFirstBalancedObject ==
  scPc = "done" =>
    /\ ((\E k \in DOMAIN scText : scText[k] = "{") /\ Closings(scText) # {}) =>
          scOut = << SubSeq(scText, FirstOpen(scText),
                            CHOOSE k \in Closings(scText) : \A j \in Closings(scText) : k <= j) >>
    /\ scOut # << >> =>
          /\ scOut[1][1] = "{"
          /\ scOut[1][Len(scOut[1])] = "}"
          /\ Depth(scOut[1], 1, Len(scOut[1])) = 0

----------------------------------------------------------------------------
\* parseAnalysisResponse on a response made of parts: fence markers, prose and
\* brace-delimited objects.  An object is modelled as a raw response is: by
\* whether JSON.parse accepts it and by what is written in it.

\* Largest number of parts of a response.
MaxParts == 4

FenceOpen == [kind |-> "fence-json", raw |-> NoRaw]
FenceClose == [kind |-> "fence", raw |-> NoRaw]
Prose == [kind |-> "prose", raw |-> NoRaw]
Object(raw) == [kind |-> "object", raw |-> raw]

ResponseParts ==
  { FenceOpen, FenceClose, Prose,
    Object(Raw(TRUE, <<"S1">>, <<"C1">>, <<"F1">>, TRUE, 80, << QA("Q1", <<"a1">>, 80) >>)),
    Object(Raw(TRUE, << >>, <<"C2">>, << >>, FALSE, 0, << QA("Q2", <<"b2">>, 90) >>)),
    Object(Raw(FALSE, <<"S3">>, << >>, << >>, FALSE, 0, << QA("Q3", <<"c3">>, 70) >>)) }

PartResponses == UNION { [1..n -> ResponseParts] : n \in 0..MaxParts }

\* The first element of a sequence of token sequences that is not empty.
RECURSIVE FirstWritten(_)
FirstWritten(ss) ==
  IF ss = << >> THEN << >>
  ELSE IF Head(ss) # << >> THEN Head(ss) ELSE FirstWritten(Tail(ss))

\* What the regular expressions of createStructuredResponse see in a text
\* made of these parts: the question objects of all parts in text order and
\* the first "summary", "category" and "finalAssessment" written.
TextOfParts(parts) ==
  Raw(FALSE,
      FirstWritten(MapSeq(parts, LAMBDA x : x.raw.summary)),
      FirstWritten(MapSeq(parts, LAMBDA x : x.raw.category)),
      FirstWritten(MapSeq(parts, LAMBDA x : x.raw.finalAssessment)),
      FALSE, 0,
      Flatten(MapSeq(parts, LAMBDA x : x.raw.questions)))

\* The match of the fenced-block pattern: the positions of the opening
\* marker and of the marker that ends the block, << >> for no match.  The
\* first three characters of a later opening marker also end a block.
FenceMarks(parts) == { k \in DOMAIN parts : parts[k].kind \in {"fence-json", "fence"} }

jsonBlockMatch(parts) ==
  LET opens == { a \in DOMAIN parts :
                   parts[a].kind = "fence-json" /\ \E b \in FenceMarks(parts) : b > a }
      first == CHOOSE a \in opens : \A c \in opens : a <= c
      last == CHOOSE b \in FenceMarks(parts) :
                 b > first /\ \A c \in FenceMarks(parts) : c > first => b <= c
  IN  IF opens = {} THEN << >> ELSE << first, last >>

\* jsonStr: the content of the fenced block, or else the first object found by
\* brace matching; << >> for the empty string.
jsonStrOf(parts) ==
  LET m == jsonBlockMatch(parts)
      objects == { k \in DOMAIN parts : parts[k].kind = "object" }
  IN  IF m # << >> THEN SubSeq(parts, m[1] + 1, m[2] - 1)
      ELSE IF objects = {} THEN << >>
      ELSE << parts[CHOOSE k \in objects : \A j \in objects : k <= j] >>

\* parseAnalysisResponse(response, mode): JSON.parse accepts jsonStr when it
\* is exactly one object that is valid JSON; every failure is caught and the
\* whole response goes to createStructuredResponse.
parsePartsResponse(parts, mode) ==
  LET jsonStr == jsonStrOf(parts)
  IN  IF jsonStr = << >> THEN createStructuredResponse(TextOfParts(parts), mode)
      ELSE IF Len(jsonStr) = 1 /\ jsonStr[1].kind = "object" /\ jsonStr[1].raw.json
      THEN LET validated == validateAndFixResponse(jsonStr[1].raw, mode)
           IN  IF validated.ok THEN validated
               ELSE createStructuredResponse(TextOfParts(parts), mode)
      ELSE createStructuredResponse(TextOfParts(parts), mode)

FenceInit ==
  /\ ServiceInit /\ RouteIdle /\ ServerIdle /\ ChunkerIdle /\ NormalizerIdle /\ ClientIdle
  /\ scPc = "ready"
  /\ scText \in PartResponses
  /\ scOut = << >>

\* parseAnalysisResponse(scText, mode) for each mode.
ParsePartsCall(mode) ==
  /\ scPc = "ready"
  /\ scPc' = "done"
  /\ scOut' = << [mode |-> mode, result |-> parsePartsResponse(scText, mode)] >>
  /\ UNCHANGED << scText, vars, routeVars, serverVars, chunkerVars, normalizerVars,
                  clientVars >>

FenceNext == \E mode \in Modes : ParsePartsCall(mode)

FenceSpec == FenceInit /\ [][FenceNext]_allVars

\* The fenced block of the text on its own: markers and content.
BlockOf(parts) == SubSeq(parts, jsonBlockMatch(parts)[1], jsonBlockMatch(parts)[2])

\* There is a fenced block with content, and an object outside it.
FencedWithOuterObject(parts) ==
  /\ jsonBlockMatch(parts) # << >>
  /\ jsonBlockMatch(parts)[2] > jsonBlockMatch(parts)[1] + 1
  /\ \E k \in DOMAIN parts :
        /\ parts[k].kind = "object"
        /\ k < jsonBlockMatch(parts)[1] \/ k > jsonBlockMatch(parts)[2]

\* C23: when the response has a fenced json block and brace-delimited text
\* outside it, the normalized result (value or error) is the one that the
\* fenced block alone gives: nothing of the outer text enters it.
C23_FencedBlockOnly ==
  (scPc = "done" /\ FencedWithOuterObject(scText)) =>
    scOut[1].result = parsePartsResponse(BlockOf(scText), scOut[1].mode)

====
